---- MODULE Spec2Model ----
(***************************************************************************)
(* json-tokenizer: key <-> token dictionaries (src/src/dictionary.ts), the *)
(* token sequence generators (src/src/utils/sequenceGenerator.ts), the     *)
(* recursive transformer (src/src/tokenizer.ts) and the key-safety         *)
(* validator (security.ts, kept as src/unnamed/part_004).                  *)
(*                                                                         *)
(* JavaScript values live on a heap of cells so that aliasing, mutation    *)
(* and freshness of containers can be stated.  A string is the tuple of    *)
(* its character codes, so that concatenation, padding, slicing and the    *)
(* control-character test are computed and not assumed.                    *)
(***************************************************************************)
EXTENDS Integers, Sequences, FiniteSets, TLC

VARIABLES
  heap,      \* the cells allocated so far; an address is an index into it
  pc,        \* position of the calling program
  keyList,   \* the key list handed to generateDictionary
  opts,      \* the TokenizationOptions handed to generateDictionary
  clock,     \* the readings Date.now() gives, one per key position
  built,     \* outcome of generateDictionary
  input,     \* the value handed to tokenize / detokenize
  mapping,   \* the map handed to tokenize / detokenize
  encoded,   \* outcome of tokenize
  decoded,   \* outcome of detokenize
  rebuilt,   \* outcome of a second generateDictionary call with the same arguments
  source,    \* the value as the caller wrote it (keys in the order they were written)
  container, \* the object obtained from createSafeObject
  seqIndex,  \* the index handed to a sequence generator
  call,      \* the last call of a utility function, with its arguments
  outcome,   \* what that call returned or raised
  hook       \* the React hook useJsonTokenizer: its state cells, memo and effect dependencies

\* what the utility functions are called on, and what they give
utilVars == <<source, container, seqIndex, call, outcome>>

vars == <<heap, pc, keyList, opts, clock, built, input, mapping, encoded, decoded, rebuilt,
          utilVars, hook>>

----------------------------------------------------------------------------
(* Bounds of the model. *)

\* largest number of nodes (scalars, arrays, objects) of an input value
MaxNodes == 3
\* largest number of entries of a caller-supplied map
MaxEntries == 1
\* largest length of a key list
MaxKeys == 2

----------------------------------------------------------------------------
(* String literals of the source, as tuples of character codes. *)

\* "__proto__"
s_proto == <<95, 95, 112, 114, 111, 116, 111, 95, 95>>
\* "constructor"
s_constructor == <<99, 111, 110, 115, 116, 114, 117, 99, 116, 111, 114>>
\* "prototype"
s_prototype == <<112, 114, 111, 116, 111, 116, 121, 112, 101>>
\* "__defineGetter__"
s_defineGetter == <<95, 95, 100, 101, 102, 105, 110, 101, 71, 101, 116, 116, 101, 114, 95, 95>>
\* "__defineSetter__"
s_defineSetter == <<95, 95, 100, 101, 102, 105, 110, 101, 83, 101, 116, 116, 101, 114, 95, 95>>
\* "__lookupGetter__"
s_lookupGetter == <<95, 95, 108, 111, 111, 107, 117, 112, 71, 101, 116, 116, 101, 114, 95, 95>>
\* "__lookupSetter__"
s_lookupSetter == <<95, 95, 108, 111, 111, 107, 117, 112, 83, 101, 116, 116, 101, 114, 95, 95>>
\* "hasOwnProperty"
s_hasOwnProperty == <<104, 97, 115, 79, 119, 110, 80, 114, 111, 112, 101, 114, 116, 121>>
\* "isPrototypeOf"
s_isPrototypeOf == <<105, 115, 80, 114, 111, 116, 111, 116, 121, 112, 101, 79, 102>>
\* "propertyIsEnumerable"
s_propertyIsEnumerable == <<112, 114, 111, 112, 101, 114, 116, 121, 73, 115, 69, 110, 117, 109, 101, 114, 97, 98, 108, 101>>
\* "toString"
s_toString == <<116, 111, 83, 116, 114, 105, 110, 103>>
\* "valueOf"
s_valueOf == <<118, 97, 108, 117, 101, 79, 102>>
\* "toLocaleString"
s_toLocaleString == <<116, 111, 76, 111, 99, 97, 108, 101, 83, 116, 114, 105, 110, 103>>
\* "root", the default start path of validateObjectKeys
s_root == <<114, 111, 111, 116>>
\* "true", "false", "null", "undefined", "NaN", "[object Object]": StringOf of non-strings
s_true == <<116, 114, 117, 101>>
s_false == <<102, 97, 108, 115, 101>>
s_null == <<110, 117, 108, 108>>
s_undefined == <<117, 110, 100, 101, 102, 105, 110, 101, 100>>
s_NaN == <<78, 97, 78>>
s_object_Object == <<91, 111, 98, 106, 101, 99, 116, 32, 79, 98, 106, 101, 99, 116, 93>>

\* Dangerous keys that can lead to prototype pollution
DANGEROUS_KEYS == <<s_proto, s_constructor, s_prototype>>

\* Additional dangerous property names that should be avoided
DANGEROUS_PROPERTY_NAMES ==
  << s_defineGetter, s_defineSetter, s_lookupGetter, s_lookupSetter,
     s_hasOwnProperty, s_isPrototypeOf, s_propertyIsEnumerable,
     s_toString, s_valueOf, s_toLocaleString >>

\* Array.prototype.includes
includes(arr, x) == \E i \in 1..Len(arr) : arr[i] = x

\* the digits Number.prototype.toString(radix) uses: "0123456789abcdefghijklmnopqrstuvwxyz"
radixDigits ==
  << 48, 49, 50, 51, 52, 53, 54, 55, 56, 57, 97, 98, 99, 100, 101, 102, 103, 104,
     105, 106, 107, 108, 109, 110, 111, 112, 113, 114, 115, 116, 117, 118, 119,
     120, 121, 122 >>

RECURSIVE toStringRadix(_, _)
\* Number.prototype.toString(radix) of a non-negative integer
toStringRadix(n, radix) ==
  IF n < radix THEN <<radixDigits[n + 1]>>
  ELSE toStringRadix(n \div radix, radix) \o <<radixDigits[(n % radix) + 1]>>

\* the bug of cutting a string that is longer than the target length
padStart_truncating(s, targetLength, fill) ==
  IF Len(s) >= targetLength THEN SubSeq(s, Len(s) - targetLength + 1, Len(s))
  ELSE [j \in 1..(targetLength - Len(s)) |-> fill] \o s

RECURSIVE padStart(_, _, _)
\* String.prototype.padStart with a one-character fill string
padStart(s, targetLength, fill) ==
  IF Len(s) >= targetLength THEN s ELSE padStart(<<fill>> \o s, targetLength, fill)

\* String.prototype.slice(-n)
sliceLast(s, n) == IF Len(s) <= n THEN s ELSE SubSeq(s, Len(s) - n + 1, Len(s))

----------------------------------------------------------------------------
(* JavaScript values. *)

Undefined == [t |-> "undefined"]
Null == [t |-> "null"]
NaN == [t |-> "NaN"]
Bool(b) == [t |-> "boolean", b |-> b]
Num(n) == [t |-> "number", n |-> n]
Str(s) == [t |-> "string", s |-> s]
Ref(a) == [t |-> "ref", a |-> a]
\* a method inherited from Object.prototype
Func == [t |-> "function"]
\* Object.prototype itself
ObjectPrototype == [t |-> "Object.prototype"]

typeof(v) ==
  CASE v.t = "undefined" -> "undefined"
    [] v.t = "null" -> "object"
    [] v.t = "boolean" -> "boolean"
    [] v.t \in {"number", "NaN"} -> "number"
    [] v.t = "string" -> "string"
    [] v.t = "function" -> "function"
    [] OTHER -> "object"

\* ToBoolean, as used by `&&` and `!`
Truthy(v) ==
  CASE v.t \in {"undefined", "null", "NaN"} -> FALSE
    [] v.t = "boolean" -> v.b
    [] v.t = "number" -> v.n # 0
    [] v.t = "string" -> v.s # <<>>
    [] OTHER -> TRUE

\* the operand a ?? b keeps: a unless it is null or undefined
Nullish(v) == v.t \in {"undefined", "null"}

----------------------------------------------------------------------------
(* KeySafetyValidator: isSafeKey. *)

\* the bug of a character class that stops at \x1f
hasControlCharacter_asciiOnly(s) == \E i \in 1..Len(s) : s[i] \in 0..31

\* /[\x00-\x1f\x7f-\x9f]/.test(key), and key.includes('\0')
hasControlCharacter(s) ==
  \E i \in 1..Len(s) : s[i] = 0 \/ s[i] \in 0..31 \/ s[i] \in 127..159

isSafeKey(key) ==
  IF typeof(key) # "string" THEN FALSE
  ELSE IF includes(DANGEROUS_KEYS, key.s) THEN FALSE
  ELSE IF includes(DANGEROUS_PROPERTY_NAMES, key.s) THEN FALSE
  ELSE IF hasControlCharacter(key.s) THEN FALSE
  ELSE TRUE

----------------------------------------------------------------------------
(* The heap: objects and arrays. *)

\* the own and inherited members of Object.prototype, which `{}` inherits
ObjectPrototypeMembers ==
  { s_proto, s_constructor, s_defineGetter, s_defineSetter, s_lookupGetter,
    s_lookupSetter, s_hasOwnProperty, s_isPrototypeOf, s_propertyIsEnumerable,
    s_toString, s_valueOf, s_toLocaleString }

Alloc(h, cell) == [h |-> Append(h, cell), v |-> Ref(Len(h) + 1)]

\* `{}`: an object that inherits from Object.prototype
newPlainObject(h) == Alloc(h, [kind |-> "object", proto |-> ObjectPrototype, props |-> <<>>])

\* the bug of building results with `{}`, which inherits from Object.prototype
createSafeObject_plain(h) ==
  Alloc(h, [kind |-> "object", proto |-> ObjectPrototype, props |-> <<>>])

\* Object.create(null)
createSafeObject(h) == Alloc(h, [kind |-> "object", proto |-> Null, props |-> <<>>])

\* `[]`
newArray(h) == Alloc(h, [kind |-> "array", items |-> <<>>])

isArray(h, v) == v.t = "ref" /\ h[v.a].kind = "array"

\* position of the own property k among props, 0 when there is none
OwnIndex(props, k) ==
  IF \E i \in 1..Len(props) : props[i].key = k
  THEN CHOOSE i \in 1..Len(props) : props[i].key = k
  ELSE 0

RECURSIVE Get(_, _, _)
\* obj[k]: the own property, else along the prototype chain
Get(h, obj, k) ==
  LET cell == h[obj.a]
      i == OwnIndex(cell.props, k)
  IN IF i # 0 THEN cell.props[i].value
     ELSE IF cell.proto = ObjectPrototype
          THEN IF k = s_proto THEN ObjectPrototype
               ELSE IF k \in ObjectPrototypeMembers THEN Func ELSE Undefined
     ELSE IF cell.proto.t = "ref" THEN Get(h, cell.proto, k)
     ELSE Undefined

RECURSIVE ToNat(_)
ToNat(s) == IF s = <<>> THEN 0 ELSE 10 * ToNat(SubSeq(s, 1, Len(s) - 1)) + (s[Len(s)] - 48)

\* a canonical array index ("0", "7", "10", not "01"): such keys are enumerated
\* first, in ascending numeric order, before the other keys in insertion order
\* (indices of ten digits, up to 2^32 - 2, are beyond the keys of this model)
IsArrayIndex(k) ==
  /\ Len(k) \in 1..9
  /\ \A i \in 1..Len(k) : k[i] \in 48..57
  /\ (Len(k) > 1 => k[1] # 48)

InsertAt(s, i, e) == SubSeq(s, 1, i - 1) \o <<e>> \o SubSeq(s, i, Len(s))

\* props are kept in the order Object.keys / Object.entries enumerate them
AddProp(props, k, v) ==
  IF IsArrayIndex(k)
  THEN LET before == {i \in 1..Len(props) :
                        IsArrayIndex(props[i].key) /\ ToNat(props[i].key) < ToNat(k)}
       IN InsertAt(props, Cardinality(before) + 1, [key |-> k, value |-> v])
  ELSE Append(props, [key |-> k, value |-> v])

\* obj[k] = v
Set(h, obj, k, v) ==
  LET cell == h[obj.a]
      i == OwnIndex(cell.props, k)
  IN IF i # 0 THEN [h EXCEPT ![obj.a].props[i].value = v]
     ELSE IF k = s_proto /\ cell.proto = ObjectPrototype
          THEN \* the inherited __proto__ setter: no own property is created
               IF v.t \in {"ref", "null"} THEN [h EXCEPT ![obj.a].proto = v] ELSE h
     ELSE [h EXCEPT ![obj.a].props = AddProp(cell.props, k, v)]

\* Object.keys(obj)
ObjectKeys(h, obj) == [i \in 1..Len(h[obj.a].props) |-> h[obj.a].props[i].key]

\* Object.entries(obj)
ObjectEntries(h, obj) == h[obj.a].props

----------------------------------------------------------------------------
(* Outcomes of a call: a returned value or a raised error, with the heap. *)

NoError == [msg |-> "none"]
Return(h, v) == [h |-> h, ok |-> TRUE, v |-> v]
Throw(h, e) == [h |-> h, ok |-> FALSE, error |-> e]
NotCalled == [ok |-> FALSE, error |-> [msg |-> "not called"]]

\* no component that uses the hook is rendered
NoHook == [mounted |-> FALSE]

----------------------------------------------------------------------------
(* KeySafetyValidator: validation of maps and of whole values. *)

Min(S) == CHOOSE x \in S : \A y \in S : x <= y

\* throws for the first own key of dict, in enumeration order, that is unsafe
validateDictionaryKeys(h, dict) ==
  LET ks == ObjectKeys(h, dict)
      bad == {i \in 1..Len(ks) : ~isSafeKey(Str(ks[i]))}
  IN IF bad = {} THEN NoError
     ELSE [msg |-> "Dangerous key detected in dictionary", key |-> ks[Min(bad)]]

RECURSIVE validateObjectKeys(_, _, _), validateItems(_, _, _, _), validateOwnKeys(_, _, _, _, _)
\* walks objects and arrays; the first unsafe key throws, with its path
validateObjectKeys(h, obj, path) ==
  IF obj.t \in {"null", "undefined"} \/ typeof(obj) # "object" THEN NoError
  ELSE IF isArray(h, obj) THEN validateItems(h, h[obj.a].items, 1, path)
  ELSE validateOwnKeys(h, obj, ObjectKeys(h, obj), 1, path)

\* the bug of not walking into the elements of an array
validateItems_notWalked(h, items, i, path) == NoError

\* obj.forEach((item, index) => validateObjectKeys(item, `${path}[${index}]`))
validateItems(h, items, i, path) ==
  IF i > Len(items) THEN NoError
  ELSE LET e == validateObjectKeys(h, items[i],
                                   path \o <<91>> \o toStringRadix(i - 1, 10) \o <<93>>)
       IN IF e # NoError THEN e ELSE validateItems(h, items, i + 1, path)

\* the bug of checking all the keys of an object before descending into any value
validateOwnKeys_keysFirst(h, obj, ks, i, path) ==
  LET bad == {j \in 1..Len(ks) : ~isSafeKey(Str(ks[j]))}
  IN IF i = 1 /\ bad # {}
     THEN [msg |-> "Dangerous key detected at", path |-> path \o <<46>> \o ks[Min(bad)],
           key |-> ks[Min(bad)]]
     ELSE IF i > Len(ks) THEN NoError
     ELSE LET e == validateObjectKeys(h, Get(h, obj, ks[i]), path \o <<46>> \o ks[i])
          IN IF e # NoError THEN e ELSE validateOwnKeys(h, obj, ks, i + 1, path)

\* for (const key of Object.keys(obj)) { check key; descend into obj[key] }
validateOwnKeys(h, obj, ks, i, path) ==
  IF i > Len(ks) THEN NoError
  ELSE IF ~isSafeKey(Str(ks[i]))
       THEN [msg |-> "Dangerous key detected at", path |-> path \o <<46>> \o ks[i],
             key |-> ks[i]]
  ELSE LET e == validateObjectKeys(h, Get(h, obj, ks[i]), path \o <<46>> \o ks[i])
       IN IF e # NoError THEN e ELSE validateOwnKeys(h, obj, ks, i + 1, path)

\* the bug of testing the type of the map's values and not their safety
validateDictionaryValues_typeOnly(h, dict) ==
  LET es == ObjectEntries(h, dict)
      bad == {i \in 1..Len(es) : typeof(es[i].value) # "string"}
  IN IF bad = {} THEN NoError
     ELSE [msg |-> "Dictionary value for key must be a string", key |-> es[Min(bad)].key,
           got |-> typeof(es[Min(bad)].value)]

\* the loop over Object.entries(dict): every value a string, and a safe one
validateDictionaryValues(h, dict) ==
  LET es == ObjectEntries(h, dict)
      bad == {i \in 1..Len(es) : typeof(es[i].value) # "string" \/ ~isSafeKey(es[i].value)}
  IN IF bad = {} THEN NoError
     ELSE LET e == es[Min(bad)]
          IN IF typeof(e.value) # "string"
             THEN [msg |-> "Dictionary value for key must be a string", key |-> e.key,
                   got |-> typeof(e.value)]
             ELSE [msg |-> "Dictionary value is not safe and could lead to prototype pollution",
                   key |-> e.key, value |-> e.value.s]

\* the bug of validating the keys of the map and not its values
validateTokenizationInput_keysOnly(h, obj, dict) ==
  LET e1 == validateDictionaryKeys(h, dict)
      e2 == validateObjectKeys(h, obj, s_root)
  IN IF e1 # NoError THEN e1 ELSE e2

validateTokenizationInput(h, obj, dict) ==
  LET e1 == validateDictionaryKeys(h, dict)
      e2 == validateObjectKeys(h, obj, s_root)
  IN IF e1 # NoError THEN e1
     ELSE IF e2 # NoError THEN e2
     ELSE validateDictionaryValues(h, dict)

\* the bug of testing the type of the key and not the key
safeAssign_unchecked(h, target, key, val) ==
  IF typeof(key) # "string"
  THEN Throw(h, [msg |-> "Cannot assign dangerous key", key |-> key])
  ELSE Return(Set(h, target, key.s, val), Undefined)

\* throws on an unsafe key, else target[key] = value
safeAssign(h, target, key, val) ==
  IF ~isSafeKey(key)
  THEN Throw(h, [msg |-> "Cannot assign dangerous key", key |-> key])
  ELSE Return(Set(h, target, key.s, val), Undefined)

----------------------------------------------------------------------------
(* RecursiveTransformer: tokenize and detokenize. *)

\* Array.prototype.map stores the callback's result at the next index
AppendItem(h, arr, v) == [h EXCEPT ![arr.a].items = Append(@, v)]

RECURSIVE tokenize(_, _, _), tokenizeItems(_, _, _, _, _), tokenizeEntries(_, _, _, _, _)
\* the bug of renaming the keys in place: `const result = obj`
tokenize_inPlace(h, obj, dict) ==
  LET e == validateTokenizationInput(h, obj, dict)
  IN IF e # NoError THEN Throw(h, e)
     ELSE IF isArray(h, obj)
          THEN LET r == newArray(h)
               IN tokenizeItems(r.h, h[obj.a].items, 1, r.v, dict)
     ELSE IF Truthy(obj) /\ typeof(obj) = "object"
          THEN tokenizeEntries(h, ObjectEntries(h, obj), 1, obj, dict)
     ELSE Return(h, obj)

tokenize(h, obj, dict) ==
  LET e == validateTokenizationInput(h, obj, dict)
  IN IF e # NoError THEN Throw(h, e)
     ELSE IF isArray(h, obj)
          THEN LET r == newArray(h)
               IN tokenizeItems(r.h, h[obj.a].items, 1, r.v, dict)
     ELSE IF Truthy(obj) /\ typeof(obj) = "object"
          THEN LET result == createSafeObject(h)
               IN tokenizeEntries(result.h, ObjectEntries(h, obj), 1, result.v, dict)
     ELSE Return(h, obj)

\* obj.map((v) => tokenize(v, dict))
tokenizeItems(h, items, i, arr, dict) ==
  IF i > Len(items) THEN Return(h, arr)
  ELSE LET r == tokenize(h, items[i], dict)
       IN IF ~r.ok THEN r
          ELSE tokenizeItems(AppendItem(r.h, arr, r.v), items, i + 1, arr, dict)

\* for (const [key, value] of Object.entries(obj)) { ... }
tokenizeEntries(h, entries, i, result, dict) ==
  IF i > Len(entries) THEN Return(h, result)
  ELSE LET key == entries[i].key
           found == Get(h, dict, key)
           token == IF Nullish(found) THEN Str(key) ELSE found
       IN IF ~isSafeKey(Str(key))
          THEN Throw(h, [msg |-> "Unsafe key encountered during tokenization", key |-> key])
          ELSE IF ~isSafeKey(token)
          THEN Throw(h, [msg |-> "Unsafe token generated for key", key |-> key,
                         token |-> token])
          ELSE LET r == tokenize(h, entries[i].value, dict)
               IN IF ~r.ok THEN r
                  ELSE LET a == safeAssign(r.h, result, token, r.v)
                       IN IF ~a.ok THEN a
                          ELSE tokenizeEntries(a.h, entries, i + 1, result, dict)

RECURSIVE detokenize(_, _, _), detokenizeItems(_, _, _, _, _), detokenizeEntries(_, _, _, _, _)
detokenize(h, obj, reverse) ==
  LET e == validateTokenizationInput(h, obj, reverse)
  IN IF e # NoError THEN Throw(h, e)
     ELSE IF isArray(h, obj)
          THEN LET r == newArray(h)
               IN detokenizeItems(r.h, h[obj.a].items, 1, r.v, reverse)
     ELSE IF Truthy(obj) /\ typeof(obj) = "object"
          THEN LET result == createSafeObject(h)
               IN detokenizeEntries(result.h, ObjectEntries(h, obj), 1, result.v, reverse)
     ELSE Return(h, obj)

\* obj.map((v) => detokenize(v, reverse))
detokenizeItems(h, items, i, arr, reverse) ==
  IF i > Len(items) THEN Return(h, arr)
  ELSE LET r == detokenize(h, items[i], reverse)
       IN IF ~r.ok THEN r
          ELSE detokenizeItems(AppendItem(r.h, arr, r.v), items, i + 1, arr, reverse)

\* the bug of never consulting reverse[key]: every key is kept as it is
detokenizeEntries_noLookup(h, entries, i, result, reverse) ==
  IF i > Len(entries) THEN Return(h, result)
  ELSE LET key == entries[i].key
           original == Str(key)
       IN IF ~isSafeKey(Str(key))
          THEN Throw(h, [msg |-> "Unsafe key encountered during detokenization", key |-> key])
          ELSE LET r == detokenize(h, entries[i].value, reverse)
               IN IF ~r.ok THEN r
                  ELSE LET a == safeAssign(r.h, result, original, r.v)
                       IN IF ~a.ok THEN a
                          ELSE detokenizeEntries(a.h, entries, i + 1, result, reverse)

\* for (const [key, value] of Object.entries(obj)) { ... }
detokenizeEntries(h, entries, i, result, reverse) ==
  IF i > Len(entries) THEN Return(h, result)
  ELSE LET key == entries[i].key
           found == Get(h, reverse, key)
           original == IF Nullish(found) THEN Str(key) ELSE found
       IN IF ~isSafeKey(Str(key))
          THEN Throw(h, [msg |-> "Unsafe key encountered during detokenization", key |-> key])
          ELSE IF ~isSafeKey(original)
          THEN Throw(h, [msg |-> "Unsafe original key for token", key |-> key,
                         original |-> original])
          ELSE LET r == detokenize(h, entries[i].value, reverse)
               IN IF ~r.ok THEN r
                  ELSE LET a == safeAssign(r.h, result, original, r.v)
                       IN IF ~a.ok THEN a
                          ELSE detokenizeEntries(a.h, entries, i + 1, result, reverse)

----------------------------------------------------------------------------
(* KeySafetyValidator: sanitizeObject and isSafeObject. *)

\* the options of sanitizeObject after destructuring with their defaults
removeUnsafeKeys(options) ==
  IF options.removeUnsafeKeys = Undefined THEN Bool(TRUE) ELSE options.removeUnsafeKeys
throwOnUnsafeKeys(options) ==
  IF options.throwOnUnsafeKeys = Undefined THEN Bool(FALSE) ELSE options.throwOnUnsafeKeys
deep(options) ==
  IF options.deep = Undefined THEN Bool(TRUE) ELSE options.deep

RECURSIVE sanitizeObject(_, _, _), sanitizeItems(_, _, _, _, _), sanitizeEntries(_, _, _, _, _)
sanitizeObject(h, obj, options) ==
  IF obj.t \in {"null", "undefined"} \/ typeof(obj) # "object" THEN Return(h, obj)
  ELSE IF isArray(h, obj)
       THEN LET r == newArray(h)
            IN sanitizeItems(r.h, h[obj.a].items, 1, r.v, options)
  ELSE LET result == createSafeObject(h)
       IN sanitizeEntries(result.h, ObjectEntries(h, obj), 1, result.v, options)

\* the bug of sanitizing the elements of an array whatever `deep` is
sanitizeItems_alwaysDeep(h, items, i, arr, options) ==
  IF i > Len(items) THEN Return(h, arr)
  ELSE LET r == sanitizeObject(h, items[i], options)
       IN IF ~r.ok THEN r
          ELSE sanitizeItems(AppendItem(r.h, arr, r.v), items, i + 1, arr, options)

\* the bug of never sanitizing the elements of an array
sanitizeItems_neverDeep(h, items, i, arr, options) ==
  IF i > Len(items) THEN Return(h, arr)
  ELSE sanitizeItems(AppendItem(h, arr, items[i]), items, i + 1, arr, options)

\* obj.map(item => deep ? sanitizeObject(item, options) : item)
sanitizeItems(h, items, i, arr, options) ==
  IF i > Len(items) THEN Return(h, arr)
  ELSE LET r == IF Truthy(deep(options)) THEN sanitizeObject(h, items[i], options)
                ELSE Return(h, items[i])
       IN IF ~r.ok THEN r
          ELSE sanitizeItems(AppendItem(r.h, arr, r.v), items, i + 1, arr, options)

\* the bug of copying an unsafe key when removeUnsafeKeys is false
sanitizeEntries_keepWhenNotRemoving(h, entries, i, result, options) ==
  IF i > Len(entries) THEN Return(h, result)
  ELSE LET key == entries[i].key
           value == entries[i].value
       IN IF ~isSafeKey(Str(key)) /\ Truthy(throwOnUnsafeKeys(options))
          THEN Throw(h, [msg |-> "Unsafe key detected", key |-> key])
          ELSE IF ~isSafeKey(Str(key)) /\ Truthy(removeUnsafeKeys(options))
          THEN sanitizeEntries(h, entries, i + 1, result, options)
          ELSE LET r == IF Truthy(deep(options)) THEN sanitizeObject(h, value, options)
                        ELSE Return(h, value)
               IN IF ~r.ok THEN r
                  ELSE sanitizeEntries(Set(r.h, result, key, r.v), entries, i + 1, result,
                                       options)

\* for (const [key, value] of Object.entries(obj)) { ... }
sanitizeEntries(h, entries, i, result, options) ==
  IF i > Len(entries) THEN Return(h, result)
  ELSE LET key == entries[i].key
           value == entries[i].value
       IN IF ~isSafeKey(Str(key))
          THEN IF Truthy(throwOnUnsafeKeys(options))
               THEN Throw(h, [msg |-> "Unsafe key detected", key |-> key])
               ELSE \* both branches on removeUnsafeKeys `continue`
                    sanitizeEntries(h, entries, i + 1, result, options)
          ELSE LET r == IF Truthy(deep(options)) THEN sanitizeObject(h, value, options)
                        ELSE Return(h, value)
               IN IF ~r.ok THEN r
                  ELSE sanitizeEntries(Set(r.h, result, key, r.v), entries, i + 1, result,
                                       options)

\* the bug of leaving out the Array.isArray test
isSafeObject_arraysToo(h, value) ==
  IF value.t \in {"null", "undefined"} \/ typeof(value) # "object" THEN Bool(FALSE)
  ELSE IF validateObjectKeys(h, value, s_root) = NoError THEN Bool(TRUE)
  ELSE Bool(FALSE)

\* try { validateObjectKeys(value); return true } catch { return false }
isSafeObject(h, value) ==
  IF value.t \in {"null", "undefined"} \/ typeof(value) # "object" \/ isArray(h, value)
  THEN Bool(FALSE)
  ELSE IF validateObjectKeys(h, value, s_root) = NoError THEN Bool(TRUE)
  ELSE Bool(FALSE)

----------------------------------------------------------------------------
(* SequenceGenerator. *)

\* enum TokenizationMethod
Method(name) == [t |-> "string", name |-> name]
ALPHABETIC == Method("alphabetic")
NUMERIC == Method("numeric")
PADDED_NUMERIC == Method("padded_numeric")
BASE64 == Method("base64")
UUID_SHORT == Method("uuid_short")
CUSTOM == Method("custom")

\* "abcdefghijklmnopqrstuvwxyz"
alphabet == [i \in 1..26 |-> 96 + i]

\* "abcdefghijklmnopqrstuvwxyzABCDEFGHIJKLMNOPQRSTUVWXYZ0123456789_$"
charset ==
  [i \in 1..26 |-> 96 + i] \o [i \in 1..26 |-> 64 + i] \o [i \in 1..10 |-> 47 + i] \o <<95, 36>>

RECURSIVE alphabeticLoop(_, _)
\* the bug of appending each letter instead of prepending it
alphabeticLoop_appending(i, key) ==
  IF i >= 0 THEN alphabeticLoop((i \div 26) - 1, key \o <<alphabet[(i % 26) + 1]>>)
  ELSE key

\* while (i >= 0) { key = alphabet[i % 26] + key; i = Math.floor(i / 26) - 1; }
alphabeticLoop(i, key) ==
  IF i >= 0 THEN alphabeticLoop((i \div 26) - 1, <<alphabet[(i % 26) + 1]>> \o key)
  ELSE key

generateAlphabeticSequence(index) == alphabeticLoop(index, <<>>)

generateNumericSequence(index) == toStringRadix(index, 10)

\* the default value of the parameter paddingLength
DefaultPaddingLength == 4

generatePaddedNumericSequence(index, paddingLength) ==
  padStart(toStringRadix(index, 10),
           IF paddingLength = Undefined THEN DefaultPaddingLength ELSE paddingLength.n,
           48)

RECURSIVE base64Loop(_, _)
\* while (i > 0) { key = charset[i % base] + key; i = Math.floor(i / base); }
base64Loop(i, key) ==
  IF i > 0 THEN base64Loop(i \div Len(charset), <<charset[(i % Len(charset)) + 1]>> \o key)
  ELSE key

\* the bug of leaving out the test for index 0
generateBase64Sequence_noZeroCase(index) == base64Loop(index, <<>>)

generateBase64Sequence(index) ==
  IF index = 0 THEN <<charset[1]>> ELSE base64Loop(index, <<>>)

\* the bug of leaving the counter out of the token
generateUuidShortSequence_noCounter(index, now) == sliceLast(toStringRadix(now, 36), 4)

\* the bug of not padding the counter
generateUuidShortSequence_unpadded(index, now) ==
  sliceLast(toStringRadix(now, 36), 4) \o toStringRadix(index, 36)

\* `now` is the reading Date.now() gives during the call
generateUuidShortSequence(index, now) ==
  LET timestamp == sliceLast(toStringRadix(now, 36), 4)
      counter == padStart(toStringRadix(index, 36), 2, 48)
  IN timestamp \o counter

\* "token_", "k": literals of the custom generators a caller supplies
s_token == <<116, 111, 107, 101, 110, 95>>
s_k == <<107>>

\* the custom generators callers supply: (index) => `token_${index}`, a constant
\* one, one whose second token is "constructor", and one that returns the index
CustomGenerators ==
  {[t |-> "function", name |-> n] : n \in {"token_index", "constant", "constructor", "index"}}

\* options.customGenerator(index)
CallCustomGenerator(g, index) ==
  CASE g.name = "token_index" -> Str(s_token \o toStringRadix(index, 10))
    [] g.name = "constant" -> Str(s_k)
    [] g.name = "constructor" -> IF index = 1 THEN Str(s_constructor)
                                 ELSE Str(s_token \o toStringRadix(index, 10))
    [] OTHER -> Num(index)

\* the bug of falling back to the alphabetic sequence when CUSTOM has no generator
generateKeySequence_fallback(index, method, options, now) ==
  CASE method = NUMERIC -> [ok |-> TRUE, v |-> Str(generateNumericSequence(index))]
    [] method = PADDED_NUMERIC ->
         [ok |-> TRUE, v |-> Str(generatePaddedNumericSequence(index, options.paddingLength))]
    [] method = BASE64 -> [ok |-> TRUE, v |-> Str(generateBase64Sequence(index))]
    [] method = UUID_SHORT -> [ok |-> TRUE, v |-> Str(generateUuidShortSequence(index, now))]
    [] method = CUSTOM /\ Truthy(options.customGenerator) ->
         [ok |-> TRUE, v |-> CallCustomGenerator(options.customGenerator, index)]
    [] OTHER -> [ok |-> TRUE, v |-> Str(generateAlphabeticSequence(index))]

\* the bug of deriving the numeric token from the clock as well
generateKeySequence_timeDerived(index, method, options, now) ==
  CASE method = ALPHABETIC -> [ok |-> TRUE, v |-> Str(generateAlphabeticSequence(index))]
    [] method = NUMERIC -> [ok |-> TRUE, v |-> Str(toStringRadix(now + index, 10))]
    [] method = PADDED_NUMERIC ->
         [ok |-> TRUE, v |-> Str(generatePaddedNumericSequence(index, options.paddingLength))]
    [] method = BASE64 -> [ok |-> TRUE, v |-> Str(generateBase64Sequence(index))]
    [] method = UUID_SHORT -> [ok |-> TRUE, v |-> Str(generateUuidShortSequence(index, now))]
    [] method = CUSTOM ->
         IF ~Truthy(options.customGenerator)
         THEN [ok |-> FALSE,
               error |-> [msg |-> "Custom generator function is required for CUSTOM tokenization method"]]
         ELSE [ok |-> TRUE, v |-> CallCustomGenerator(options.customGenerator, index)]
    [] OTHER -> [ok |-> TRUE, v |-> Str(generateAlphabeticSequence(index))]

\* the returned token, or the error raised
generateKeySequence(index, method, options, now) ==
  CASE method = ALPHABETIC -> [ok |-> TRUE, v |-> Str(generateAlphabeticSequence(index))]
    [] method = NUMERIC -> [ok |-> TRUE, v |-> Str(generateNumericSequence(index))]
    [] method = PADDED_NUMERIC ->
         [ok |-> TRUE, v |-> Str(generatePaddedNumericSequence(index, options.paddingLength))]
    [] method = BASE64 -> [ok |-> TRUE, v |-> Str(generateBase64Sequence(index))]
    [] method = UUID_SHORT -> [ok |-> TRUE, v |-> Str(generateUuidShortSequence(index, now))]
    [] method = CUSTOM ->
         IF ~Truthy(options.customGenerator)
         THEN [ok |-> FALSE,
               error |-> [msg |-> "Custom generator function is required for CUSTOM tokenization method"]]
         ELSE [ok |-> TRUE, v |-> CallCustomGenerator(options.customGenerator, index)]
    [] OTHER -> [ok |-> TRUE, v |-> Str(generateAlphabeticSequence(index))]

----------------------------------------------------------------------------
(* DictionaryBuilder. *)

\* StringOf of a primitive
StringOf(v) ==
  CASE v.t = "string" -> v.s
    [] v.t = "number" -> toStringRadix(v.n, 10)
    [] v.t = "NaN" -> s_NaN
    [] v.t = "boolean" -> IF v.b THEN s_true ELSE s_false
    [] v.t = "null" -> s_null
    [] v.t = "undefined" -> s_undefined
    [] OTHER -> s_object_Object

\* ToNumber of a primitive that is no string
ToNumber(v) ==
  CASE v.t = "number" -> v
    [] v.t = "boolean" -> IF v.b THEN Num(1) ELSE Num(0)
    [] v.t = "null" -> Num(0)
    [] OTHER -> NaN

\* a + b: concatenation when either operand is a string (or an object), else addition
Plus(a, b) ==
  IF a.t \in {"string", "ref", "function"} \/ b.t \in {"string", "ref", "function"}
  THEN Str(StringOf(a) \o StringOf(b))
  ELSE IF ToNumber(a) = NaN \/ ToNumber(b) = NaN THEN NaN
  ELSE Num(ToNumber(a).n + ToNumber(b).n)

\* an outcome of generateDictionary, with the number of generateKeySequence calls
\* the call made
Generated(r, n) == r @@ [generated |-> n]

RECURSIVE buildEntries(_, _, _, _, _, _, _, _, _)
\* the bug of not checking reverse[token] before it is written (as the first
\* version of generateDictionary did)
buildEntries_noCollisionCheck(h, items, i, forward, reverse, method, prefix, options, nows) ==
  IF i > Len(items)
  THEN Generated(Return(h, [forward |-> forward, reverse |-> reverse, method |-> method]),
                 Len(items))
  ELSE LET key == items[i].s
           baseToken == generateKeySequence(i - 1, method, options, nows[i])
           token == Plus(prefix, baseToken.v)
       IN IF ~baseToken.ok THEN Generated(Throw(h, baseToken.error), i)
          ELSE IF ~isSafeKey(token)
          THEN Generated(Throw(h, [msg |-> "Generated token is not safe", token |-> token,
                                    key |-> key]), i)
          ELSE IF Get(h, forward, key) # Undefined
          THEN Generated(Throw(h, [msg |-> "Duplicate key detected", key |-> key]), i)
          ELSE buildEntries(Set(Set(h, forward, key, token), reverse, token.s, Str(key)),
                            items, i + 1, forward, reverse, method, prefix, options, nows)

\* the bug of not checking forward[key] before it is written
buildEntries_noDuplicateCheck(h, items, i, forward, reverse, method, prefix, options, nows) ==
  IF i > Len(items)
  THEN Generated(Return(h, [forward |-> forward, reverse |-> reverse, method |-> method]),
                 Len(items))
  ELSE LET key == items[i].s
           baseToken == generateKeySequence(i - 1, method, options, nows[i])
           token == Plus(prefix, baseToken.v)
       IN IF ~baseToken.ok THEN Generated(Throw(h, baseToken.error), i)
          ELSE IF ~isSafeKey(token)
          THEN Generated(Throw(h, [msg |-> "Generated token is not safe", token |-> token,
                                    key |-> key]), i)
          ELSE IF Get(h, reverse, token.s) # Undefined
          THEN Generated(Throw(h, [msg |-> "Token collision detected", token |-> token.s]), i)
          ELSE buildEntries(Set(Set(h, forward, key, token), reverse, token.s, Str(key)),
                            items, i + 1, forward, reverse, method, prefix, options, nows)

\* the bug of storing the generated token without the prefix
buildEntries_noPrefix(h, items, i, forward, reverse, method, prefix, options, nows) ==
  IF i > Len(items)
  THEN Generated(Return(h, [forward |-> forward, reverse |-> reverse, method |-> method]),
                 Len(items))
  ELSE LET key == items[i].s
           baseToken == generateKeySequence(i - 1, method, options, nows[i])
           token == baseToken.v
       IN IF ~baseToken.ok THEN Generated(Throw(h, baseToken.error), i)
          ELSE IF ~isSafeKey(token)
          THEN Generated(Throw(h, [msg |-> "Generated token is not safe", token |-> token,
                                    key |-> key]), i)
          ELSE IF Get(h, forward, key) # Undefined
          THEN Generated(Throw(h, [msg |-> "Duplicate key detected", key |-> key]), i)
          ELSE IF Get(h, reverse, token.s) # Undefined
          THEN Generated(Throw(h, [msg |-> "Token collision detected", token |-> token.s]), i)
          ELSE buildEntries(Set(Set(h, forward, key, token), reverse, token.s, Str(key)),
                            items, i + 1, forward, reverse, method, prefix, options, nows)

\* keys.forEach((key, index) => { ... })
buildEntries(h, items, i, forward, reverse, method, prefix, options, nows) ==
  IF i > Len(items)
  THEN Generated(Return(h, [forward |-> forward, reverse |-> reverse, method |-> method]),
                 Len(items))
  ELSE LET key == items[i].s
           baseToken == generateKeySequence(i - 1, method, options, nows[i])
           token == Plus(prefix, baseToken.v)
       IN IF ~baseToken.ok THEN Generated(Throw(h, baseToken.error), i)
          ELSE IF ~isSafeKey(token)
          THEN Generated(Throw(h, [msg |-> "Generated token is not safe", token |-> token,
                                    key |-> key]), i)
          ELSE IF Get(h, forward, key) # Undefined
          THEN Generated(Throw(h, [msg |-> "Duplicate key detected", key |-> key]), i)
          ELSE IF Get(h, reverse, token.s) # Undefined
          THEN Generated(Throw(h, [msg |-> "Token collision detected", token |-> token.s]), i)
          ELSE buildEntries(Set(Set(h, forward, key, token), reverse, token.s, Str(key)),
                            items, i + 1, forward, reverse, method, prefix, options, nows)

\* the bug of testing isSafeKey on the first key alone
generateDictionary_firstKeyOnly(h, keys, options, nows) ==
  LET method == IF options.method = Undefined THEN ALPHABETIC ELSE options.method
      prefix == IF options.prefix = Undefined THEN Str(<<>>) ELSE options.prefix
  IN IF keys.t # "array"
     THEN Generated(Throw(h, [msg |-> "Keys must be provided as an array"]), 0)
     ELSE LET bad == {i \in 1..Len(keys.items) :
                        \/ typeof(keys.items[i]) # "string"
                        \/ (i = 1 /\ ~isSafeKey(keys.items[i]))}
          IN IF bad # {}
             THEN IF typeof(keys.items[Min(bad)]) # "string"
                  THEN Generated(Throw(h, [msg |-> "All keys must be strings",
                                           got |-> keys.items[Min(bad)]]), 0)
                  ELSE Generated(Throw(h, [msg |-> "Unsafe key detected in input",
                                           key |-> keys.items[Min(bad)].s]), 0)
             ELSE IF Truthy(prefix) /\ typeof(prefix) # "string"
             THEN Generated(Throw(h, [msg |-> "Prefix must be a string", got |-> typeof(prefix)]), 0)
             ELSE LET forward == newPlainObject(h)
                      reverse == newPlainObject(forward.h)
                  IN buildEntries(reverse.h, keys.items, 1, forward.v, reverse.v,
                                  method, prefix, options, nows)

\* `nows` holds, for each key position, the reading Date.now() gives there
generateDictionary(h, keys, options, nows) ==
  LET method == IF options.method = Undefined THEN ALPHABETIC ELSE options.method
      prefix == IF options.prefix = Undefined THEN Str(<<>>) ELSE options.prefix
  IN IF keys.t # "array"
     THEN Generated(Throw(h, [msg |-> "Keys must be provided as an array"]), 0)
     ELSE LET bad == {i \in 1..Len(keys.items) :
                        typeof(keys.items[i]) # "string" \/ ~isSafeKey(keys.items[i])}
          IN IF bad # {}
             THEN IF typeof(keys.items[Min(bad)]) # "string"
                  THEN Generated(Throw(h, [msg |-> "All keys must be strings",
                                           got |-> keys.items[Min(bad)]]), 0)
                  ELSE Generated(Throw(h, [msg |-> "Unsafe key detected in input",
                                           key |-> keys.items[Min(bad)].s]), 0)
             ELSE IF Truthy(prefix) /\ typeof(prefix) # "string"
             THEN Generated(Throw(h, [msg |-> "Prefix must be a string", got |-> typeof(prefix)]), 0)
             ELSE LET forward == newPlainObject(h)
                      reverse == newPlainObject(forward.h)
                  IN buildEntries(reverse.h, keys.items, 1, forward.v, reverse.v,
                                  method, prefix, options, nows)

----------------------------------------------------------------------------
(* The values and maps a caller supplies, as trees, and their loading. *)

\* keys used in input values and maps: "a", "b" and the unsafe "__proto__"
InputKeys == {<<97>>, <<98>>, s_proto}

Scalars == {Num(1), Num(2)}

ArrayTree(items) == [t |-> "array", items |-> items]
ObjectTree(props) == [t |-> "object", props |-> props]

\* the sequences of length n of distinct elements of S
RECURSIVE DistinctSeqs(_, _)
DistinctSeqs(S, n) ==
  IF n = 0 THEN {<<>>}
  ELSE UNION {{<<x>> \o r : r \in DistinctSeqs(S \ {x}, n - 1)} : x \in S}

RECURSIVE TreesOfSize(_), Forests(_)
\* the sequences of trees with m nodes in all
Forests(m) ==
  IF m = 0 THEN {<<>>}
  ELSE UNION {{<<tr>> \o f : tr \in TreesOfSize(j), f \in Forests(m - j)} : j \in 1..m}

\* the trees with exactly n nodes
TreesOfSize(n) ==
  (IF n = 1 THEN Scalars ELSE {})
    \cup {ArrayTree(f) : f \in Forests(n - 1)}
    \cup UNION {{ObjectTree([i \in 1..Len(f) |-> [key |-> ks[i], value |-> f[i]]]) :
                   ks \in DistinctSeqs(InputKeys, Len(f))} :
                f \in {g \in Forests(n - 1) : Len(g) <= Cardinality(InputKeys)}}

Values == UNION {TreesOfSize(n) : n \in 1..MaxNodes}

\* what a map may hold under a key: safe and unsafe strings, and a non-string
MapValues == {Str(<<97>>), Str(<<98>>), Str(s_proto), Num(1)}

Maps ==
  UNION {{ObjectTree([i \in 1..n |-> [key |-> ks[i], value |-> vs[i]]]) :
            ks \in DistinctSeqs(InputKeys, n), vs \in [1..n -> MapValues]} :
         n \in 0..MaxEntries}

RECURSIVE Load(_, _), LoadItems(_, _, _, _), LoadProps(_, _, _, _)
\* builds the tree on the heap, as an object literal or JSON.parse does: plain
\* objects, every key an own enumerable property (also "__proto__")
Load(h, tree) ==
  IF tree.t = "array" THEN LET r == newArray(h) IN LoadItems(r.h, tree.items, 1, r.v)
  ELSE IF tree.t = "object"
       THEN LET r == newPlainObject(h) IN LoadProps(r.h, tree.props, 1, r.v)
  ELSE [h |-> h, v |-> tree]

LoadItems(h, items, i, arr) ==
  IF i > Len(items) THEN [h |-> h, v |-> arr]
  ELSE LET r == Load(h, items[i])
       IN LoadItems(AppendItem(r.h, arr, r.v), items, i + 1, arr)

LoadProps(h, props, i, obj) ==
  IF i > Len(props) THEN [h |-> h, v |-> obj]
  ELSE LET r == Load(h, props[i].value)
       IN LoadProps([r.h EXCEPT ![obj.a].props = AddProp(@, props[i].key, r.v)],
                    props, i + 1, obj)

RECURSIVE Snapshot(_, _)
\* the structure below v, for structural comparison: arrays by position, objects
\* by key (the order of keys and the prototype play no part)
Snapshot(h, v) ==
  IF v.t # "ref" THEN v
  ELSE IF h[v.a].kind = "array"
       THEN ArrayTree([i \in 1..Len(h[v.a].items) |-> Snapshot(h, h[v.a].items[i])])
  ELSE LET ps == h[v.a].props
       IN [t |-> "object",
           props |-> [k \in {ps[i].key : i \in 1..Len(ps)} |->
                        Snapshot(h, ps[OwnIndex(ps, k)].value)]]

----------------------------------------------------------------------------
(* The calling program: tokenize and detokenize on a supplied value and map. *)

Outcome(r) == IF r.ok THEN [ok |-> TRUE, v |-> r.v] ELSE [ok |-> FALSE, error |-> r.error]

NoOptions == [method |-> Undefined]

\* no utility function has been called
NoUtilCall ==
  /\ source = Undefined
  /\ container = Undefined
  /\ seqIndex = 0
  /\ call = NotCalled
  /\ outcome = NotCalled
  /\ hook = NoHook

InitTok ==
  \E tree \in Values, m \in Maps :
    LET lv == Load(<<>>, tree)
        lm == Load(lv.h, m)
    IN /\ heap = lm.h
       /\ input = lv.v
       /\ mapping = lm.v
       /\ pc = "ready"
       /\ keyList = Undefined
       /\ opts = NoOptions
       /\ clock = <<>>
       /\ built = NotCalled
       /\ encoded = NotCalled
       /\ decoded = NotCalled
       /\ rebuilt = NotCalled
       /\ NoUtilCall

\* encoded = tokenize(input, mapping)
Tokenize ==
  /\ pc = "ready"
  /\ LET r == tokenize(heap, input, mapping)
     IN /\ heap' = r.h
        /\ encoded' = Outcome(r)
  /\ pc' = "tokenized"
  /\ UNCHANGED <<keyList, opts, clock, built, input, mapping, decoded, rebuilt, utilVars, hook>>

\* decoded = detokenize(input, mapping)
Detokenize ==
  /\ pc \in {"ready", "tokenized"}
  /\ LET r == detokenize(heap, input, mapping)
     IN /\ heap' = r.h
        /\ decoded' = Outcome(r)
  /\ pc' = "detokenized"
  /\ UNCHANGED <<keyList, opts, clock, built, input, mapping, encoded, rebuilt, utilVars, hook>>

NextTok == Tokenize \/ Detokenize

SpecTok == InitTok /\ [][NextTok]_vars

----------------------------------------------------------------------------
(* Vocabulary of the properties. *)

RECURSIVE Reach(_, _)
\* the addresses of the arrays and objects reachable from v
Reach(h, v) ==
  IF v.t # "ref" THEN {}
  ELSE IF h[v.a].kind = "array"
       THEN {v.a} \cup UNION {Reach(h, h[v.a].items[i]) : i \in 1..Len(h[v.a].items)}
  ELSE {v.a} \cup UNION {Reach(h, h[v.a].props[i].value) : i \in 1..Len(h[v.a].props)}

OwnKeySet(h, obj) == {h[obj.a].props[i].key : i \in 1..Len(h[obj.a].props)}

IsObject(h, v) == v.t = "ref" /\ h[v.a].kind = "object"

RECURSIVE UnsafePaths(_, _, _)
\* the paths, from `path`, of the unsafe own keys found anywhere below v
UnsafePaths(h, v, path) ==
  IF v.t # "ref" THEN {}
  ELSE IF h[v.a].kind = "array"
       THEN UNION {UnsafePaths(h, h[v.a].items[i],
                               path \o <<91>> \o toStringRadix(i - 1, 10) \o <<93>>) :
                   i \in 1..Len(h[v.a].items)}
  ELSE {path \o <<46>> \o k : k \in {x \in OwnKeySet(h, v) : ~isSafeKey(Str(x))}}
         \cup UNION {UnsafePaths(h, h[v.a].props[i].value,
                                 path \o <<46>> \o h[v.a].props[i].key) :
                     i \in 1..Len(h[v.a].props)}

\* the map passes validation: every own key safe, every own value a safe string
MapPasses(h, m) ==
  \A i \in 1..Len(h[m.a].props) :
    /\ isSafeKey(Str(h[m.a].props[i].key))
    /\ typeof(h[m.a].props[i].value) = "string"
    /\ isSafeKey(h[m.a].props[i].value)

\* the calls of tokenize / detokenize made so far, with their outcomes
Calls == {c \in {encoded, decoded} : c # NotCalled}

----------------------------------------------------------------------------
(* Properties of tokenize / detokenize on a supplied value and map. *)

\* C3 (unsafe-key rejection): with a map that passes validation and an input that
\* holds an unsafe own key at some depth, tokenize and detokenize return nothing
\* and raise "Dangerous key detected at" naming the path, from root, of an unsafe
\* key of the input.
C3_UnsafeKeyRejected ==
  (MapPasses(heap, mapping) /\ UnsafePaths(heap, input, s_root) # {}) =>
    \A c \in Calls :
      /\ ~c.ok
      /\ c.error.msg = "Dangerous key detected at"
      /\ c.error.path \in UnsafePaths(heap, input, s_root)

\* an unsafe key inside an element of an array, rejected by both operations
C3_Witness ==
  /\ encoded # NotCalled /\ decoded # NotCalled
  /\ MapPasses(heap, mapping)
  /\ isArray(heap, input)
  /\ UnsafePaths(heap, input, s_root) # {}
  /\ ~encoded.ok /\ ~decoded.ok

\* C4 (output safety): every object of a returned result, at every depth, is a
\* null-prototype container created by the call (it is no cell of the input or of
\* the map), and each of its own keys passes isSafeKey.
C4_OutputSafe ==
  \A c \in Calls :
    c.ok =>
      /\ Reach(heap, c.v) \cap (Reach(heap, input) \cup Reach(heap, mapping)) = {}
      /\ \A a \in Reach(heap, c.v) :
           heap[a].kind = "object" =>
             /\ heap[a].proto = Null
             /\ \A k \in OwnKeySet(heap, Ref(a)) : isSafeKey(Str(k))

\* a returned object that holds an object under one of its keys
C4_Witness ==
  /\ encoded # NotCalled /\ encoded.ok
  /\ IsObject(heap, encoded.v)
  /\ \E i \in 1..Len(heap[encoded.v.a].props) :
       IsObject(heap, heap[encoded.v.a].props[i].value)

RECURSIVE PartialTolerance(_, _, _, _)
\* every own key of an input object that the map lacks is an own key of the
\* matching output object, holding the tokenized form of the input's value
PartialTolerance(h, m, in, out) ==
  IF in.t # "ref" \/ out.t # "ref" THEN TRUE
  ELSE IF h[in.a].kind = "array"
       THEN h[out.a].kind = "array" =>
              \A i \in 1..Len(h[in.a].items) :
                i <= Len(h[out.a].items) =>
                  PartialTolerance(h, m, h[in.a].items[i], h[out.a].items[i])
  ELSE \A i \in 1..Len(h[in.a].props) :
         LET k == h[in.a].props[i].key
             sub == tokenize(h, h[in.a].props[i].value, m)
         IN k \notin OwnKeySet(h, m) =>
              /\ k \in OwnKeySet(h, out)
              /\ sub.ok
              /\ Snapshot(h, Get(h, out, k)) = Snapshot(sub.h, sub.v)
              /\ PartialTolerance(h, m, h[in.a].props[i].value, Get(h, out, k))

\* C5 (partial-dictionary tolerance): when the map and the input pass validation,
\* tokenize returns, and each own key of an input object that is absent from the
\* map is a key of the output object, holding the tokenized form of its value.
C5_PartialDictionary ==
  (encoded # NotCalled /\ MapPasses(heap, mapping) /\ UnsafePaths(heap, input, s_root) = {}) =>
    /\ encoded.ok
    /\ PartialTolerance(heap, mapping, input, encoded.v)

RECURSIVE Mirror(_, _, _)
\* same shape: arrays of the same length, element by element; objects with the
\* same number of own keys, each input value mirrored under some output key;
\* scalars identical
Mirror(h, in, out) ==
  IF in.t # "ref" THEN out = in
  ELSE IF out.t # "ref" THEN FALSE
  ELSE IF h[in.a].kind = "array"
       THEN /\ h[out.a].kind = "array"
            /\ Len(h[out.a].items) = Len(h[in.a].items)
            /\ \A i \in 1..Len(h[in.a].items) : Mirror(h, h[in.a].items[i], h[out.a].items[i])
  ELSE /\ h[out.a].kind = "object"
       /\ Len(h[out.a].props) = Len(h[in.a].props)
       /\ \A i \in 1..Len(h[in.a].props) :
            \E j \in 1..Len(h[out.a].props) :
              Mirror(h, h[in.a].props[i].value, h[out.a].props[j].value)

\* C6 (structural mirror): when the map and the input pass validation, the result
\* of tokenize and of detokenize has the shape of the input.
C6_StructuralMirror ==
  (MapPasses(heap, mapping) /\ UnsafePaths(heap, input, s_root) = {}) =>
    \A c \in Calls : c.ok /\ Mirror(heap, input, c.v)

\* an unsafe key, a non-string value or an unsafe value among the map's entries
MapOffends(h, m) ==
  \E i \in 1..Len(h[m.a].props) :
    \/ ~isSafeKey(Str(h[m.a].props[i].key))
    \/ h[m.a].props[i].value.t # "string"
    \/ ~isSafeKey(h[m.a].props[i].value)

\* C7 (map validation): with a map that has an unsafe own key, a non-string own
\* value or an unsafe own value, tokenize and detokenize raise and return nothing,
\* whatever the input (also a scalar, also when no input key uses the entry).
C7_MapValidated ==
  MapOffends(heap, mapping) => \A c \in Calls : ~c.ok

\* a scalar input with a map whose only fault is a non-string value
C7_Witness ==
  /\ encoded # NotCalled /\ decoded # NotCalled
  /\ input.t = "number"
  /\ \E i \in 1..Len(heap[mapping.a].props) :
       /\ heap[mapping.a].props[i].value.t = "number"
       /\ isSafeKey(Str(heap[mapping.a].props[i].key))
  /\ ~encoded.ok /\ ~decoded.ok

SameOutcome(h1, r1, h2, r2) ==
  /\ r1.ok = r2.ok
  /\ r1.ok => Snapshot(h1, r1.v) = Snapshot(h2, r2.v)
  /\ ~r1.ok => r1.error = r2.error

\* C8 (non-mutation): a call of tokenize or detokenize, returning or raising,
\* changes no cell that existed before it (the input at every depth and the map
\* are such cells), and calling again with the same value and map has the same
\* outcome.
C8_NonMutation ==
  [][/\ \A a \in 1..Len(heap) : heap'[a] = heap[a]
     /\ encoded' # NotCalled =>
          LET again == tokenize(heap', input', mapping')
          IN SameOutcome(again.h, again, heap', encoded')
     /\ decoded' # NotCalled =>
          LET again == detokenize(heap', input', mapping')
          IN SameOutcome(again.h, again, heap', decoded')]_vars

\* both operations have returned for an object input whose key the map renames
C8_Witness ==
  /\ encoded # NotCalled /\ decoded # NotCalled
  /\ encoded.ok /\ decoded.ok
  /\ IsObject(heap, input)
  /\ OwnKeySet(heap, input) \cap OwnKeySet(heap, mapping) # {}

----------------------------------------------------------------------------
(* The calling program: build a dictionary, tokenize a value with its forward *)
(* map, detokenize the result with its reverse map.                           *)

\* elements of key lists: "a", "b", the unsafe "__proto__" and a non-string
KeyItems == {Str(<<97>>), Str(<<98>>), Str(s_proto), Num(7)}

\* the key lists callers pass, and one argument that is no array
KeyLists ==
  {ArrayTree(ks) : ks \in UNION {[1..n -> KeyItems] : n \in 0..MaxKeys}} \cup {Str(<<97>>)}

\* "t_"
s_t == <<116, 95>>

Prefixes == {Undefined, Str(s_t), Num(0), Num(1)}

Methods == {Undefined, ALPHABETIC, NUMERIC, PADDED_NUMERIC, BASE64, UUID_SHORT, CUSTOM,
            Method("unknown")}

\* paddingLength is read by PADDED_NUMERIC alone, customGenerator by CUSTOM alone
OptionSets ==
  {[method |-> m, prefix |-> p,
    paddingLength |-> IF m = PADDED_NUMERIC THEN pl ELSE Undefined,
    customGenerator |-> IF m = CUSTOM THEN g ELSE Undefined] :
     m \in Methods, p \in Prefixes, pl \in {Undefined, Num(1), Num(3)},
     g \in {Undefined} \cup CustomGenerators}

\* readings of Date.now(); only their last four base-36 digits are used
ClockReadings == {46656, 46692}

KeyCount(ks) == IF ks.t = "array" THEN Len(ks.items) ELSE 0

Init ==
  \E ks \in KeyLists, o \in OptionSets :
    \E nows \in [1..KeyCount(ks) -> ClockReadings] :
      /\ o.method # UUID_SHORT => \A i \in 1..KeyCount(ks) : nows[i] = 46656
      /\ heap = <<>>
      /\ pc = "start"
      /\ keyList = ks
      /\ opts = o
      /\ clock = nows
      /\ built = NotCalled
      /\ input = Undefined
      /\ mapping = Undefined
      /\ encoded = NotCalled
      /\ decoded = NotCalled
      /\ rebuilt = NotCalled
      /\ NoUtilCall

\* built = generateDictionary(keyList, opts)
GenerateDictionary ==
  /\ pc = "start"
  /\ LET r == generateDictionary(heap, keyList, opts, clock)
     IN /\ heap' = r.h
        /\ built' = Generated(Outcome(r), r.generated)
  /\ pc' = "built"
  /\ UNCHANGED <<keyList, opts, clock, input, mapping, encoded, decoded, rebuilt, utilVars, hook>>

\* rebuilt = generateDictionary(keyList, opts): the same call once more, at a
\* later time (Date.now() gives whatever it gives then)
GenerateAgain ==
  /\ pc = "built"
  /\ \E nows \in [1..KeyCount(keyList) -> ClockReadings] :
       LET r == generateDictionary(heap, keyList, opts, nows)
       IN /\ heap' = r.h
          /\ rebuilt' = Generated(Outcome(r), r.generated)
  /\ pc' = "rebuilt"
  /\ UNCHANGED <<keyList, opts, clock, built, input, mapping, encoded, decoded, utilVars, hook>>

RECURSIVE TreeKeys(_)
\* the object keys that occur in a tree
TreeKeys(tree) ==
  IF tree.t = "array" THEN UNION {TreeKeys(tree.items[i]) : i \in 1..Len(tree.items)}
  ELSE IF tree.t = "object"
       THEN {tree.props[i].key : i \in 1..Len(tree.props)}
              \cup UNION {TreeKeys(tree.props[i].value) : i \in 1..Len(tree.props)}
  ELSE {}

\* for each set of keys, the values all of whose object keys are in the set
ValuesOver == [K \in SUBSET InputKeys |-> {tree \in Values : TreeKeys(tree) \subseteq K}]

\* encoded = tokenize(data, built.forward), for data whose keys the key list holds
Encode ==
  /\ pc = "built"
  /\ built.ok
  /\ \E tree \in ValuesOver[{keyList.items[i].s : i \in 1..Len(keyList.items)} \cap InputKeys] :
       LET lv == Load(heap, tree)
           r == tokenize(lv.h, lv.v, built.v.forward)
       IN /\ heap' = r.h
          /\ input' = lv.v
          /\ encoded' = Outcome(r)
  /\ mapping' = built.v.forward
  /\ pc' = "encoded"
  /\ UNCHANGED <<keyList, opts, clock, built, decoded, rebuilt, utilVars, hook>>

\* decoded = detokenize(encoded, built.reverse)
Decode ==
  /\ pc = "encoded"
  /\ encoded.ok
  /\ LET r == detokenize(heap, encoded.v, built.v.reverse)
     IN /\ heap' = r.h
        /\ decoded' = Outcome(r)
  /\ pc' = "decoded"
  /\ UNCHANGED <<keyList, opts, clock, built, input, mapping, encoded, rebuilt, utilVars, hook>>

Next == GenerateDictionary \/ GenerateAgain \/ Encode \/ Decode

Spec == Init /\ [][Next]_vars

----------------------------------------------------------------------------
(* Properties of generateDictionary and of the round trip. *)

\* the key list is an array of strings that pass isSafeKey
SafeKeyList == keyList.t = "array" /\ \A i \in 1..Len(keyList.items) : isSafeKey(keyList.items[i])

\* no key occurs at two positions
UniqueKeys == \A i, j \in 1..Len(keyList.items) : keyList.items[i] = keyList.items[j] => i = j

\* the own value of obj under k, Undefined when k is no own key
Own(h, obj, k) ==
  IF OwnIndex(h[obj.a].props, k) = 0 THEN Undefined
  ELSE h[obj.a].props[OwnIndex(h[obj.a].props, k)].value

\* C1 (round trip): for a dictionary built from unique safe keys, by any method,
\* with or without a prefix, and a value whose object keys are all in the key
\* list, tokenize with forward returns, detokenize of its result with reverse
\* returns, and what it returns is structurally equal to the value.
C1_RoundTrip ==
  /\ pc \in {"encoded", "decoded"} => encoded.ok
  /\ pc = "decoded" =>
       /\ decoded.ok
       /\ Snapshot(heap, decoded.v) = Snapshot(heap, input)

\* a round trip of an object that holds an array or object under a renamed key
C1_Witness ==
  /\ pc = "decoded" /\ decoded.ok
  /\ IsObject(heap, input)
  /\ \E i \in 1..Len(heap[input.a].props) :
       /\ heap[input.a].props[i].value.t = "ref"
       /\ Own(heap, mapping, heap[input.a].props[i].key) # Str(heap[input.a].props[i].key)

\* C2 (bijection): a dictionary returned for n unique safe keys has n forward
\* entries and n reverse entries, reverse[forward[k]] = k for every key k of the
\* list and forward[reverse[t]] = t for every token t of reverse.
C2_Bijection ==
  (built # NotCalled /\ built.ok /\ SafeKeyList /\ UniqueKeys) =>
    LET f == built.v.forward
        r == built.v.reverse
    IN /\ Len(heap[f.a].props) = Len(keyList.items)
       /\ Len(heap[r.a].props) = Len(keyList.items)
       /\ \A i \in 1..Len(keyList.items) :
            LET k == keyList.items[i].s
            IN /\ Own(heap, f, k).t = "string"
               /\ Own(heap, r, Own(heap, f, k).s) = Str(k)
       /\ \A t \in OwnKeySet(heap, r) :
            /\ Own(heap, r, t).t = "string"
            /\ Own(heap, f, Own(heap, r, t).s) = Str(t)

\* a dictionary of two entries
C2_Witness ==
  /\ built # NotCalled /\ built.ok
  /\ Len(keyList.items) = 2
  /\ Len(heap[built.v.forward.a].props) = 2

\* the token position i receives: prefix + generated token
FinalToken(i) ==
  Plus(IF opts.prefix = Undefined THEN Str(<<>>) ELSE opts.prefix,
       generateKeySequence(i - 1, IF opts.method = Undefined THEN ALPHABETIC ELSE opts.method,
                           opts, clock[i]).v)

Generates(i) ==
  generateKeySequence(i - 1, IF opts.method = Undefined THEN ALPHABETIC ELSE opts.method,
                      opts, clock[i]).ok

DuplicateKey ==
  /\ keyList.t = "array"
  /\ \E i, j \in 1..Len(keyList.items) : i < j /\ keyList.items[i] = keyList.items[j]

TokenClash ==
  /\ keyList.t = "array"
  /\ \E i, j \in 1..Len(keyList.items) :
       /\ i < j /\ keyList.items[i] # keyList.items[j]
       /\ Generates(i) /\ Generates(j)
       /\ FinalToken(i) = FinalToken(j)

\* C9 (collision detection): with the same key at two positions, or two distinct
\* keys that receive the same final token, generateDictionary raises and returns
\* no dictionary; a returned dictionary has one forward and one reverse entry for
\* each position of the key list (no entry was overwritten).
C9_CollisionDetected ==
  built # NotCalled =>
    /\ (DuplicateKey \/ TokenClash) => ~built.ok
    /\ built.ok =>
         /\ Len(heap[built.v.forward.a].props) = Len(keyList.items)
         /\ Len(heap[built.v.reverse.a].props) = Len(keyList.items)

\* two distinct safe keys given one token by a constant custom generator
C9_Witness ==
  /\ built # NotCalled /\ ~built.ok
  /\ SafeKeyList /\ TokenClash
  /\ opts.method = CUSTOM
  /\ built.error.msg = "Token collision detected"

\* the call generateDictionary(keys, {method: CUSTOM}): no generator, no other option
CustomWithoutGenerator ==
  opts = [method |-> CUSTOM, prefix |-> Undefined, paddingLength |-> Undefined,
          customGenerator |-> Undefined]

RequiresGenerator ==
  /\ ~built.ok
  /\ built.error.msg = "Custom generator function is required for CUSTOM tokenization method"

\* C10 as claimed (custom-method requirement): for every array of safe string
\* keys, whatever its length, generateDictionary(keys, {method: CUSTOM}) without
\* a customGenerator raises "Custom generator function is required for CUSTOM
\* tokenization method" and returns no dictionary.
C10_Original ==
  (built # NotCalled /\ SafeKeyList /\ CustomWithoutGenerator) => RequiresGenerator

\* C10 as amended: the same for every non-empty array of safe string keys (the
\* generator is asked for when the first key is processed; for an empty key list
\* an empty dictionary is returned).
C10_CustomRequiresGenerator ==
  (built # NotCalled /\ SafeKeyList /\ CustomWithoutGenerator) =>
    IF Len(keyList.items) > 0 THEN RequiresGenerator
    ELSE /\ built.ok
         /\ heap[built.v.forward.a].props = <<>>
         /\ heap[built.v.reverse.a].props = <<>>

\* the error raised for a list of two safe keys
C10_Witness ==
  /\ built # NotCalled /\ SafeKeyList /\ CustomWithoutGenerator
  /\ Len(keyList.items) = 2
  /\ RequiresGenerator

\* options.prefix was supplied and is no string
NonStringPrefix == opts.prefix # Undefined /\ typeof(opts.prefix) # "string"

\* C11 (non-string prefix): when options.prefix is supplied with a value that is
\* not a string (a number, 0 included), generateDictionary raises and returns no
\* dictionary, for every key list.
C11_NonStringPrefix ==
  (built # NotCalled /\ NonStringPrefix) => ~built.ok

\* C12 (position-ordered prefix composition): whenever generateDictionary
\* returns, forward[keys[i]] is the prefix (default "") followed by the token
\* generateKeySequence gives for the zero-based position i, for every position
\* of the key list: tokens follow the order of the list, not a sort order.
C12_PositionOrder ==
  (built # NotCalled /\ built.ok) =>
    \A i \in 1..Len(keyList.items) :
      Own(heap, built.v.forward, keyList.items[i].s) = FinalToken(i)

\* ['b', 'a'] with numeric and prefix 't_' gives {b: 't_0', a: 't_1'}
C12_Witness ==
  /\ built # NotCalled /\ built.ok
  /\ keyList = ArrayTree(<<Str(<<98>>), Str(<<97>>)>>)
  /\ opts.method = NUMERIC /\ opts.prefix = Str(s_t)
  /\ Own(heap, built.v.forward, <<98>>) = Str(s_t \o <<48>>)
  /\ Own(heap, built.v.forward, <<97>>) = Str(s_t \o <<49>>)

\* the positions of the key list whose element is no string or fails isSafeKey
Offenders ==
  {i \in 1..KeyCount(keyList) :
     typeof(keyList.items[i]) # "string" \/ ~isSafeKey(keyList.items[i])}

\* C13 (unsafe source keys): when keys is no array, or some element at any
\* position is no string or fails isSafeKey, generateDictionary raises and
\* returns no dictionary; no token was generated before (so a custom generator
\* was never called), and the error is that of the first offending element.
C13_UnsafeSourceKeys ==
  (built # NotCalled /\ (keyList.t # "array" \/ Offenders # {})) =>
    /\ ~built.ok
    /\ built.generated = 0
    /\ IF keyList.t # "array" THEN built.error.msg = "Keys must be provided as an array"
       ELSE LET k == keyList.items[Min(Offenders)]
            IN IF typeof(k) # "string"
               THEN built.error = [msg |-> "All keys must be strings", got |-> k]
               ELSE built.error = [msg |-> "Unsafe key detected in input", key |-> k.s]

\* ['a', '__proto__'] with a custom generator: rejected for the second key
C13_Witness ==
  /\ built # NotCalled /\ ~built.ok
  /\ keyList = ArrayTree(<<Str(<<97>>), Str(s_proto)>>)
  /\ opts.method = CUSTOM /\ opts.customGenerator # Undefined
  /\ built.error = [msg |-> "Unsafe key detected in input", key |-> s_proto]

\* the methods whose tokens depend on the index and the options alone
DeterministicMethods == {ALPHABETIC, NUMERIC, PADDED_NUMERIC, BASE64}

\* the same error, or dictionaries with the same entries in the same order
SameDictionary(h, d1, d2) ==
  /\ d1.ok = d2.ok
  /\ ~d1.ok => d1.error = d2.error
  /\ d1.ok =>
       /\ h[d1.v.forward.a] = h[d2.v.forward.a]
       /\ h[d1.v.reverse.a] = h[d2.v.reverse.a]
       /\ d1.v.method = d2.v.method

\* C14 (determinism): for alphabetic, numeric, padded-numeric and base64, two
\* calls of generateDictionary with the same key list and options give equal
\* dictionaries (forward, reverse, method) or raise the same error, and
\* generateKeySequence gives the same token for the same (index, method,
\* options), whatever the time of the call.
C14_Determinism ==
  opts.method \in DeterministicMethods =>
    /\ pc = "rebuilt" => SameDictionary(heap, built, rebuilt)
    /\ \A i \in 0..MaxKeys : \A n1, n2 \in ClockReadings :
         generateKeySequence(i, opts.method, opts, n1) = generateKeySequence(i, opts.method, opts, n2)

\* two calls at different times that returned two dictionaries of two entries
C14_Witness ==
  /\ pc = "rebuilt" /\ opts.method \in DeterministicMethods
  /\ built.ok /\ rebuilt.ok
  /\ built.v.forward # rebuilt.v.forward
  /\ Len(heap[rebuilt.v.forward.a].props) = 2

----------------------------------------------------------------------------
(* The calling program: isSafeKey on any key, and a container from            *)
(* createSafeObject that is filled through safeAssign.                        *)

\* the variables of the dictionary pipeline
pipeVars == <<keyList, opts, clock, built, input, mapping, encoded, decoded, rebuilt>>

\* no dictionary was built and nothing was tokenized
NoPipeline ==
  /\ keyList = Undefined
  /\ opts = NoOptions
  /\ clock = <<>>
  /\ built = NotCalled
  /\ mapping = Undefined
  /\ encoded = NotCalled
  /\ decoded = NotCalled
  /\ rebuilt = NotCalled

\* "Constructor", "constructor2", "x__proto__", "tostring": near misses of denied names
s_Constructor == <<67>> \o SubSeq(s_constructor, 2, Len(s_constructor))
s_constructor2 == s_constructor \o <<50>>
s_x_proto == <<120>> \o s_proto
s_tostring == <<116, 111, 115, 116, 114, 105, 110, 103>>

\* keys handed to isSafeKey: every denied name, near misses, the empty string,
\* characters at the edges of the two control ranges, and values that are no strings
CandidateKeys ==
  {Str(DANGEROUS_KEYS[i]) : i \in 1..Len(DANGEROUS_KEYS)}
    \cup {Str(DANGEROUS_PROPERTY_NAMES[i]) : i \in 1..Len(DANGEROUS_PROPERTY_NAMES)}
    \cup {Str(<<>>), Str(<<97>>), Str(<<49>>), Str(s_Constructor), Str(s_constructor2),
          Str(s_x_proto), Str(s_tostring)}
    \cup {Str(<<c>>) : c \in {0, 9, 31, 32, 126, 127, 128, 159, 160}}
    \cup {Str(<<97, c, 98>>) : c \in {10, 32, 133}}
    \cup {Num(7), Bool(TRUE), Null, Undefined, Func}

\* keys and values handed to safeAssign
AssignKeys ==
  {Str(<<97>>), Str(<<49>>), Str(<<>>), Str(s_proto), Str(s_constructor), Str(s_toString),
   Str(<<97, 10>>), Num(7)}

AssignValues == {Num(1), Str(<<97>>)}

InitKey ==
  /\ heap = <<>>
  /\ pc = "ready"
  /\ input = Undefined
  /\ NoPipeline
  /\ NoUtilCall

\* outcome = isSafeKey(key)
IsSafeKey ==
  /\ \E key \in CandidateKeys :
       /\ call' = [op |-> "isSafeKey", key |-> key]
       /\ outcome' = [ok |-> TRUE, v |-> Bool(isSafeKey(key))]
  /\ UNCHANGED <<heap, pc, pipeVars, hook, source, container, seqIndex>>

\* container = createSafeObject()
CreateSafeObject ==
  /\ container = Undefined
  /\ LET r == createSafeObject(heap)
     IN /\ heap' = r.h
        /\ container' = r.v
        /\ outcome' = [ok |-> TRUE, v |-> r.v]
  /\ call' = [op |-> "createSafeObject"]
  /\ UNCHANGED <<pc, pipeVars, hook, source, seqIndex>>

\* safeAssign(container, key, value); `before` keeps the container as it was
SafeAssign ==
  /\ container # Undefined
  /\ \E key \in AssignKeys, value \in AssignValues :
       LET r == safeAssign(heap, container, key, value)
       IN /\ heap' = r.h
          /\ outcome' = Outcome(r)
          /\ call' = [op |-> "safeAssign", key |-> key, value |-> value,
                      before |-> heap[container.a]]
  /\ UNCHANGED <<pc, pipeVars, hook, source, container, seqIndex>>

NextKey == IsSafeKey \/ CreateSafeObject \/ SafeAssign

SpecKey == InitKey /\ [][NextKey]_vars

\* the names isSafeKey denies
DeniedNames ==
  {s_proto, s_constructor, s_prototype, s_defineGetter, s_defineSetter, s_lookupGetter,
   s_lookupSetter, s_hasOwnProperty, s_isPrototypeOf, s_propertyIsEnumerable, s_toString,
   s_valueOf, s_toLocaleString}

\* C15 (isSafeKey): isSafeKey(k) is true exactly when k is a string, k is none
\* of the thirteen denied names, and k holds no character in 0x00-0x1F or
\* 0x7F-0x9F; the match is exact and case-sensitive, so the empty string and
\* strings that merely contain a denied name are safe.
C15_IsSafeKey ==
  (call # NotCalled /\ call.op = "isSafeKey") =>
    /\ outcome.v = Bool(/\ call.key.t = "string"
                        /\ call.key.s \notin DeniedNames
                        /\ \A i \in 1..Len(call.key.s) :
                             call.key.s[i] \notin (0..31) \cup (127..159))
    /\ call.key \in {Str(<<>>), Str(s_Constructor), Str(s_constructor2), Str(s_x_proto),
                      Str(s_tostring)} => outcome.v = Bool(TRUE)

\* "constructor2", which contains a denied name, is found safe
C15_Witness ==
  /\ call # NotCalled /\ call.op = "isSafeKey"
  /\ call.key = Str(s_constructor2)
  /\ outcome.v = Bool(TRUE)

\* the keys of a cell's own entries
CellKeys(cell) == {cell.props[i].key : i \in 1..Len(cell.props)}

\* the value a cell holds under k, Undefined when it has no such entry
CellValue(cell, k) ==
  IF OwnIndex(cell.props, k) = 0 THEN Undefined ELSE cell.props[OwnIndex(cell.props, k)].value

\* C19 (safeAssign): with a key that fails isSafeKey, safeAssign raises 'Cannot
\* assign dangerous key' and the container is unchanged; with a safe key it
\* makes container[key] the value and leaves every other entry unchanged; a
\* container from createSafeObject has no entry and no inherited member before
\* the first assignment.
C19_SafeAssign ==
  /\ (call # NotCalled /\ call.op = "createSafeObject") =>
       /\ heap[container.a].props = <<>>
       /\ heap[container.a].proto = Null
       /\ \A k \in CandidateKeys : k.t = "string" => Get(heap, container, k.s) = Undefined
  /\ (call # NotCalled /\ call.op = "safeAssign") =>
       IF ~isSafeKey(call.key)
       THEN /\ ~outcome.ok
            /\ outcome.error.msg = "Cannot assign dangerous key"
            /\ heap[container.a] = call.before
       ELSE /\ outcome.ok
            /\ Get(heap, container, call.key.s) = call.value
            /\ CellKeys(heap[container.a]) = CellKeys(call.before) \cup {call.key.s}
            /\ \A k \in CellKeys(call.before) \ {call.key.s} :
                 CellValue(heap[container.a], k) = CellValue(call.before, k)
            /\ heap[container.a].proto = call.before.proto

\* a safe key assigned to a container that already held another entry
C19_Witness ==
  /\ call # NotCalled /\ call.op = "safeAssign"
  /\ outcome.ok
  /\ Len(call.before.props) = 1
  /\ Len(heap[container.a].props) = 2

----------------------------------------------------------------------------
(* The calling program: validateObjectKeys, sanitizeObject and isSafeObject   *)
(* on a value the caller wrote.                                               *)

\* largest number of nodes of a value handed to the validator functions
MaxSecNodes == 4

\* keys of those values: the integer-like "1", "a" and the unsafe "constructor"
SecKeys == {<<49>>, <<97>>, s_constructor}

RECURSIVE SecTreesOfSize(_), SecForests(_)
\* the sequences of trees with m nodes in all
SecForests(m) ==
  IF m = 0 THEN {<<>>}
  ELSE UNION {{<<tr>> \o f : tr \in SecTreesOfSize(j), f \in SecForests(m - j)} : j \in 1..m}

\* the trees with exactly n nodes; an object's props are in the order written
SecTreesOfSize(n) ==
  (IF n = 1 THEN {Num(1)} ELSE {})
    \cup {ArrayTree(f) : f \in SecForests(n - 1)}
    \cup UNION {{ObjectTree([i \in 1..Len(f) |-> [key |-> ks[i], value |-> f[i]]]) :
                   ks \in DistinctSeqs(SecKeys, Len(f))} :
                f \in {g \in SecForests(n - 1) : Len(g) <= Cardinality(SecKeys)}}

\* values with two different unsafe keys, one of them below a safe key that is
\* enumerated first
SecPollutedTrees ==
  LET polluted == ObjectTree(<<[key |-> s_prototype, value |-> Num(1)]>>)
      last == [key |-> s_constructor, value |-> Num(1)]
  IN {ObjectTree(<<[key |-> <<97>>, value |-> polluted], last>>),
      ObjectTree(<<[key |-> <<97>>, value |-> ArrayTree(<<polluted>>)], last>>),
      ArrayTree(<<polluted, ObjectTree(<<last>>)>>),
      ObjectTree(<<[key |-> s_prototype, value |-> ObjectTree(<<last>>)]>>)}

SecValues ==
  UNION {SecTreesOfSize(n) : n \in 1..MaxSecNodes} \cup {Null, Undefined, Str(<<97>>)}
    \cup SecPollutedTrees

\* the start paths handed to validateObjectKeys: the default 'root', and 'x'
StartPaths == {s_root, <<120>>}

\* the options handed to sanitizeObject
SanitizeOptions ==
  [removeUnsafeKeys : {Undefined, Bool(FALSE)},
   throwOnUnsafeKeys : {Undefined, Bool(TRUE)},
   deep : {Undefined, Bool(FALSE)}]

InitSec ==
  \E tree \in SecValues :
    LET lv == Load(<<>>, tree)
    IN /\ heap = lv.h
       /\ input = lv.v
       /\ source = tree
       /\ pc = "ready"
       /\ NoPipeline
       /\ container = Undefined
       /\ seqIndex = 0
       /\ call = NotCalled
       /\ outcome = NotCalled
       /\ hook = NoHook

\* validateObjectKeys(input, path)
ValidateObjectKeys ==
  /\ pc = "ready"
  /\ \E path \in StartPaths :
       LET e == validateObjectKeys(heap, input, path)
       IN /\ call' = [op |-> "validateObjectKeys", path |-> path]
          /\ outcome' = IF e = NoError THEN [ok |-> TRUE, v |-> Undefined]
                        ELSE [ok |-> FALSE, error |-> e]
  /\ pc' = "done"
  /\ UNCHANGED <<heap, pipeVars, hook, source, container, seqIndex>>

\* outcome = sanitizeObject(input, options)
SanitizeObject ==
  /\ pc = "ready"
  /\ \E options \in SanitizeOptions :
       LET r == sanitizeObject(heap, input, options)
       IN /\ heap' = r.h
          /\ call' = [op |-> "sanitizeObject", options |-> options]
          /\ outcome' = Outcome(r)
  /\ pc' = "done"
  /\ UNCHANGED <<pipeVars, hook, source, container, seqIndex>>

\* outcome = isSafeObject(input)
IsSafeObject ==
  /\ pc = "ready"
  /\ call' = [op |-> "isSafeObject"]
  /\ outcome' = [ok |-> TRUE, v |-> isSafeObject(heap, input)]
  /\ pc' = "done"
  /\ UNCHANGED <<heap, pipeVars, hook, source, container, seqIndex>>

NextSec == ValidateObjectKeys \/ SanitizeObject \/ IsSafeObject

SpecSec == InitSec /\ [][NextSec]_vars

RECURSIVE Enumerated(_), EnumeratedProps(_, _, _)
\* the tree with the props of every object in the order Object.keys enumerates
\* them: integer-like keys first, ascending, then the others in the order written
Enumerated(tree) ==
  IF tree.t = "array" THEN ArrayTree([i \in 1..Len(tree.items) |-> Enumerated(tree.items[i])])
  ELSE IF tree.t = "object" THEN ObjectTree(EnumeratedProps(tree.props, 1, <<>>))
  ELSE tree

EnumeratedProps(props, i, acc) ==
  IF i > Len(props) THEN acc
  ELSE EnumeratedProps(props, i + 1, AddProp(acc, props[i].key, Enumerated(props[i].value)))

RECURSIVE FirstUnsafe(_, _), FirstUnsafeItem(_, _, _), FirstUnsafeProp(_, _, _)
\* the path of the first unsafe key of the tree, <<>> when there is none: the
\* props of an object in sequence, each key and then all below its value before
\* the next key; the elements of an array by index
FirstUnsafe(tree, path) ==
  IF tree.t = "array" THEN FirstUnsafeItem(tree.items, 1, path)
  ELSE IF tree.t = "object" THEN FirstUnsafeProp(tree.props, 1, path)
  ELSE <<>>

FirstUnsafeItem(items, i, path) ==
  IF i > Len(items) THEN <<>>
  ELSE LET f == FirstUnsafe(items[i], path \o <<91>> \o toStringRadix(i - 1, 10) \o <<93>>)
       IN IF f # <<>> THEN f ELSE FirstUnsafeItem(items, i + 1, path)

FirstUnsafeProp(props, i, path) ==
  IF i > Len(props) THEN <<>>
  ELSE IF ~isSafeKey(Str(props[i].key)) THEN path \o <<46>> \o props[i].key
  ELSE LET f == FirstUnsafe(props[i].value, path \o <<46>> \o props[i].key)
       IN IF f # <<>> THEN f ELSE FirstUnsafeProp(props, i + 1, path)

\* validateObjectKeys raised exactly when the value holds an unsafe key, and with
\* the path `first`
ReportsFirst(first) ==
  /\ outcome.ok <=> \A k \in TreeKeys(source) : isSafeKey(Str(k))
  /\ IF first = <<>> THEN outcome.ok
     ELSE /\ ~outcome.ok
          /\ outcome.error.msg = "Dangerous key detected at"
          /\ outcome.error.path = first

\* C16 as claimed (validateObjectKeys): it raises exactly when some object
\* reachable through objects and arrays has an own key that fails isSafeKey, and
\* reports the path of the first such key, an object's keys taken in insertion
\* order (each key, then its value, before the next key), array elements by
\* index; the path starts from the start path and appends '.key' and '[i]'.
C16_Original ==
  (call # NotCalled /\ call.op = "validateObjectKeys") =>
    ReportsFirst(FirstUnsafe(source, call.path))

\* C16 as amended: the same, an object's keys taken in the order Object.keys
\* enumerates them (integer-like keys in ascending numeric order first, then
\* the other keys in insertion order).
C16_ValidateObjectKeys ==
  (call # NotCalled /\ call.op = "validateObjectKeys") =>
    ReportsFirst(FirstUnsafe(Enumerated(source), call.path))

\* an error for a value whose first unsafe key differs between the two orders
C16_Witness ==
  /\ call # NotCalled /\ call.op = "validateObjectKeys"
  /\ ~outcome.ok
  /\ FirstUnsafe(source, call.path) # FirstUnsafe(Enumerated(source), call.path)
  /\ outcome.error.path = FirstUnsafe(Enumerated(source), call.path)

RECURSIVE Clean(_), TreeSnapshot(_)
\* the tree without its unsafe keys and all below them
Clean(tree) ==
  IF tree.t = "array" THEN ArrayTree([i \in 1..Len(tree.items) |-> Clean(tree.items[i])])
  ELSE IF tree.t = "object"
       THEN ObjectTree(SelectSeq([i \in 1..Len(tree.props) |->
                                    [key |-> tree.props[i].key,
                                     value |-> Clean(tree.props[i].value)]],
                                 LAMBDA p : isSafeKey(Str(p.key))))
  ELSE tree

\* the structure of a tree, in the form Snapshot gives for a value on the heap
TreeSnapshot(tree) ==
  IF tree.t = "array"
  THEN ArrayTree([i \in 1..Len(tree.items) |-> TreeSnapshot(tree.items[i])])
  ELSE IF tree.t = "object"
       THEN [t |-> "object",
             props |-> [k \in {tree.props[i].key : i \in 1..Len(tree.props)} |->
                          TreeSnapshot(tree.props[OwnIndex(tree.props, k)].value)]]
  ELSE tree

\* C17 (sanitizeObject): with throwOnUnsafeKeys false and deep true, for either
\* value of removeUnsafeKeys, sanitizeObject returns a copy in which every
\* object holds exactly the safe own keys of the input object (an unsafe key is
\* absent with all below it), arrays keep length and order, scalars are
\* unchanged; it never raises and does not modify the input.
C17_Sanitize ==
  (/\ call # NotCalled /\ call.op = "sanitizeObject"
   /\ ~Truthy(throwOnUnsafeKeys(call.options))
   /\ Truthy(deep(call.options))) =>
    LET h0 == Load(<<>>, source).h
    IN /\ outcome.ok
       /\ Snapshot(heap, outcome.v) = TreeSnapshot(Clean(source))
       /\ SubSeq(heap, 1, Len(h0)) = h0
       /\ Reach(heap, outcome.v) \cap (1..Len(h0)) = {}

\* removeUnsafeKeys: false on a value with an unsafe key that holds an object
C17_Witness ==
  /\ call # NotCalled /\ call.op = "sanitizeObject"
  /\ call.options.removeUnsafeKeys = Bool(FALSE)
  /\ ~Truthy(throwOnUnsafeKeys(call.options)) /\ Truthy(deep(call.options))
  /\ outcome.ok
  /\ source.t = "object"
  /\ \E i \in 1..Len(source.props) :
       source.props[i].key = s_constructor /\ source.props[i].value.t = "object"

\* C18 (isSafeObject): true exactly when the value is a non-null, non-array
\* object and validateObjectKeys does not raise for it; false, without raising,
\* for null, undefined, scalars, every array and every object with an unsafe key
\* at any depth.
C18_IsSafeObject ==
  (call # NotCalled /\ call.op = "isSafeObject") =>
    /\ outcome.ok
    /\ outcome.v = Bool(/\ source.t = "object"
                        /\ validateObjectKeys(heap, input, s_root) = NoError)
    /\ source.t # "object" => outcome.v = Bool(FALSE)
    /\ (\E k \in TreeKeys(source) : ~isSafeKey(Str(k))) => outcome.v = Bool(FALSE)

\* false for an array whose elements are all safe
C18_Witness ==
  /\ call # NotCalled /\ call.op = "isSafeObject"
  /\ source.t = "array" /\ Len(source.items) > 0
  /\ \A k \in TreeKeys(source) : isSafeKey(Str(k))
  /\ outcome.v = Bool(FALSE)

----------------------------------------------------------------------------
(* The calling program: a sequence generator asked for the token of index 0,  *)
(* then of index 1, and so on.                                                *)

\* largest index handed to a sequence generator
MaxIndex == 1296

InitSeq ==
  /\ heap = <<>>
  /\ pc = "ready"
  /\ input = Undefined
  /\ NoPipeline
  /\ NoUtilCall

\* outcome = generateAlphabeticSequence(seqIndex); `last` keeps the token of the
\* index before
GenerateAlphabetic ==
  /\ IF call = NotCalled THEN TRUE
     ELSE call.op = "generateAlphabeticSequence" /\ call.index # seqIndex
  /\ call' = [op |-> "generateAlphabeticSequence", index |-> seqIndex,
              last |-> IF call = NotCalled THEN Undefined ELSE outcome.v]
  /\ outcome' = [ok |-> TRUE, v |-> Str(generateAlphabeticSequence(seqIndex))]
  /\ UNCHANGED <<heap, pc, pipeVars, hook, source, container, seqIndex>>

\* outcome = generateBase64Sequence(seqIndex)
GenerateBase64 ==
  /\ IF call = NotCalled THEN TRUE
     ELSE call.op = "generateBase64Sequence" /\ call.index # seqIndex
  /\ call' = [op |-> "generateBase64Sequence", index |-> seqIndex]
  /\ outcome' = [ok |-> TRUE, v |-> Str(generateBase64Sequence(seqIndex))]
  /\ UNCHANGED <<heap, pc, pipeVars, hook, source, container, seqIndex>>

\* the widths handed over as paddingLength; Undefined when it is omitted
PaddingLengths == {Undefined, Num(1), Num(3)}

\* outcome = generatePaddedNumericSequence(seqIndex, paddingLength), called
\* directly or through generateKeySequence(seqIndex, PADDED_NUMERIC, {paddingLength})
GeneratePaddedNumeric ==
  /\ IF call = NotCalled THEN TRUE
     ELSE call.op = "generatePaddedNumericSequence" /\ call.index # seqIndex
  /\ \E paddingLength \in PaddingLengths, via \in {"direct", "generateKeySequence"} :
       /\ call' = [op |-> "generatePaddedNumericSequence", index |-> seqIndex,
                   paddingLength |-> paddingLength, via |-> via]
       /\ outcome' =
            IF via = "direct"
            THEN [ok |-> TRUE, v |-> Str(generatePaddedNumericSequence(seqIndex, paddingLength))]
            ELSE generateKeySequence(seqIndex, PADDED_NUMERIC,
                                     [paddingLength |-> paddingLength,
                                      customGenerator |-> Undefined], 0)
  /\ UNCHANGED <<heap, pc, pipeVars, hook, source, container, seqIndex>>

\* readings of Date.now() of four and of five base-36 digits
SeqClockReadings == {46656, 46692, 1679651}

\* outcome = generateUuidShortSequence(seqIndex), Date.now() reading `now`
GenerateUuidShort ==
  /\ IF call = NotCalled THEN TRUE
     ELSE call.op = "generateUuidShortSequence" /\ call.index # seqIndex
  /\ \E now \in SeqClockReadings :
       /\ call' = [op |-> "generateUuidShortSequence", index |-> seqIndex, now |-> now]
       /\ outcome' = [ok |-> TRUE, v |-> Str(generateUuidShortSequence(seqIndex, now))]
  /\ UNCHANGED <<heap, pc, pipeVars, hook, source, container, seqIndex>>

\* the caller moves on to the next index
NextIndex ==
  /\ call # NotCalled /\ call.index = seqIndex
  /\ seqIndex < MaxIndex
  /\ seqIndex' = seqIndex + 1
  /\ UNCHANGED <<heap, pc, pipeVars, hook, source, container, call, outcome>>

NextSeq ==
  GenerateAlphabetic \/ GenerateBase64 \/ GeneratePaddedNumeric \/ GenerateUuidShort \/ NextIndex

SpecSeq == InitSeq /\ [][NextSeq]_vars

RECURSIVE Successor(_)
\* the string that follows s among the lowercase strings ordered by length and
\* then alphabetically: the last letter advanced, 'z' wrapping to 'a' with a carry
Successor(s) ==
  IF s = <<>> THEN <<97>>
  ELSE IF s[Len(s)] < 122 THEN SubSeq(s, 1, Len(s) - 1) \o <<s[Len(s)] + 1>>
  ELSE Successor(SubSeq(s, 1, Len(s) - 1)) \o <<97>>

RECURSIVE Rank(_)
\* the number of non-empty lowercase strings that come before s in that order
Rank(s) ==
  IF Len(s) = 1 THEN s[1] - 97
  ELSE 26 * (Rank(SubSeq(s, 1, Len(s) - 1)) + 1) + (s[Len(s)] - 97)

\* C20 (alphabetic sequence): generateAlphabeticSequence enumerates the
\* non-empty lowercase strings in length-then-alphabetical order without gaps
\* or repeats: index 0 gives 'a', the token of i + 1 is the successor of the
\* token of i (25 -> 'z', 26 -> 'aa', 27 -> 'ab', 701 -> 'zz', 702 -> 'aaa'),
\* and distinct indices give distinct tokens (the token of i has rank i).
C20_AlphabeticSequence ==
  (call # NotCalled /\ call.op = "generateAlphabeticSequence") =>
    LET token == outcome.v.s
    IN /\ token # <<>>
       /\ \A j \in 1..Len(token) : token[j] \in 97..122
       /\ call.index = 0 => token = <<97>>
       /\ call.index > 0 => token = Successor(call.last.s)
       /\ Rank(token) = call.index
       /\ call.index = 25 => token = <<122>>
       /\ call.index = 26 => token = <<97, 97>>
       /\ call.index = 27 => token = <<97, 98>>
       /\ call.index = 701 => token = <<122, 122>>
       /\ call.index = 702 => token = <<97, 97, 97>>

\* the step from 'zz' to 'aaa'
C20_Witness ==
  /\ call # NotCalled /\ call.op = "generateAlphabeticSequence"
  /\ call.index = 702
  /\ call.last = Str(<<122, 122>>)
  /\ outcome.v = Str(<<97, 97, 97>>)

\* the value of a character as a base-64 digit: a-z, A-Z, 0-9, _, $
Base64Digit(c) ==
  IF c \in 97..122 THEN c - 97
  ELSE IF c \in 65..90 THEN c - 65 + 26
  ELSE IF c \in 48..57 THEN c - 48 + 52
  ELSE IF c = 95 THEN 62
  ELSE IF c = 36 THEN 63
  ELSE -1

RECURSIVE Base64Value(_)
\* the number a string of base-64 digits denotes, most significant digit first
Base64Value(s) ==
  IF s = <<>> THEN 0
  ELSE 64 * Base64Value(SubSeq(s, 1, Len(s) - 1)) + Base64Digit(s[Len(s)])

\* C21 (base64 sequence): generateBase64Sequence gives 'a' for index 0, and for
\* index > 0 the base-64 numeral of the index over a-z A-Z 0-9 _ $, most
\* significant digit first, with no leading 'a'; 63 -> '$', 64 -> 'ba'; the
\* token has one character for an index below 64 and more otherwise; distinct
\* indices give distinct tokens (the token denotes its index).
C21_Base64Sequence ==
  (call # NotCalled /\ call.op = "generateBase64Sequence") =>
    LET token == outcome.v.s
    IN /\ token # <<>>
       /\ \A j \in 1..Len(token) : Base64Digit(token[j]) \in 0..63
       /\ Base64Value(token) = call.index
       /\ call.index = 0 => token = <<97>>
       /\ call.index > 0 => token[1] # 97
       /\ call.index = 63 => token = <<36>>
       /\ call.index = 64 => token = <<98, 97>>
       /\ Len(token) = 1 <=> call.index < 64

\* the step to two digits: 64 gives 'ba'
C21_Witness ==
  /\ call # NotCalled /\ call.op = "generateBase64Sequence"
  /\ call.index = 64
  /\ outcome.v = Str(<<98, 97>>)

RECURSIVE DigitCount(_, _)
\* the number of digits of n in the radix
DigitCount(n, radix) == IF n < radix THEN 1 ELSE 1 + DigitCount(n \div radix, radix)

Max(a, b) == IF a >= b THEN a ELSE b

\* C22 (padded numeric sequence): generatePaddedNumericSequence(index, width)
\* gives the decimal digits of index after max(0, width - digits) zeros: its
\* length is max(width, digits), it is never truncated, the width is 4 when
\* paddingLength is omitted, also through generateKeySequence, and for a fixed
\* width distinct indices give distinct tokens (the token denotes its index).
C22_PaddedNumeric ==
  (call # NotCalled /\ call.op = "generatePaddedNumericSequence") =>
    LET token == outcome.v.s
        width == IF call.paddingLength = Undefined THEN 4 ELSE call.paddingLength.n
        digits == DigitCount(call.index, 10)
    IN /\ outcome.ok
       /\ Len(token) = Max(width, digits)
       /\ \A j \in 1..Len(token) : token[j] \in 48..57
       /\ \A j \in 1..(Len(token) - digits) : token[j] = 48
       /\ ToNat(token) = call.index
       /\ call.index > 0 => token[Len(token) - digits + 1] # 48

\* 1000 with width 3 through generateKeySequence: four digits, nothing cut
C22_Witness ==
  /\ call # NotCalled /\ call.op = "generatePaddedNumericSequence"
  /\ call.index = 1000 /\ call.paddingLength = Num(3) /\ call.via = "generateKeySequence"
  /\ outcome.v = Str(<<49, 48, 48, 48>>)

\* the value of a character as a base-36 digit: 0-9, a-z
Base36Digit(c) == IF c \in 48..57 THEN c - 48 ELSE IF c \in 97..122 THEN c - 97 + 10 ELSE -1

RECURSIVE Base36Value(_)
Base36Value(s) ==
  IF s = <<>> THEN 0
  ELSE 36 * Base36Value(SubSeq(s, 1, Len(s) - 1)) + Base36Digit(s[Len(s)])

\* the token is the last four base-36 digits of the clock reading and then the
\* index in base 36
TimestampThenCounter(token, index, now) ==
  /\ Len(token) >= 5
  /\ \A j \in 1..Len(token) : Base36Digit(token[j]) \in 0..35
  /\ Base36Value(SubSeq(token, 1, 4)) = now % (36 * 36 * 36 * 36)
  /\ Base36Value(SubSeq(token, 5, Len(token))) = index

UuidIndices == {0, 1, 35, 36, 1295, 1296, 1297, 46655, 46656}

\* clock readings of at least 36^3
UuidReadings == {46656, 46692, 1679651, 60466175}

\* the tokens of the indices above, each under every reading
UuidSamples ==
  {[index |-> i, token |-> generateUuidShortSequence(i, now)] : i \in UuidIndices, now \in UuidReadings}

\* C29 (short-unique tokens never collide inside one build): with method
\* UUID_SHORT and clock readings of at least 36^3 that may differ from one key
\* position to the next, two distinct positions receive distinct tokens:
\* generateDictionary never raises a token collision, a list of unique safe keys
\* under a string prefix is built, and the built dictionary is a bijection.
C29_UuidNoCollision ==
  /\ \A x, y \in UuidSamples : x.token = y.token => x.index = y.index
  /\ (built # NotCalled /\ opts.method = UUID_SHORT) =>
       /\ ~built.ok => built.error.msg # "Token collision detected"
       /\ ~TokenClash
       /\ (SafeKeyList /\ UniqueKeys /\ opts.prefix.t \in {"undefined", "string"}) => built.ok
       /\ built.ok =>
            LET f == built.v.forward
                r == built.v.reverse
            IN /\ Len(heap[f.a].props) = Len(keyList.items)
               /\ Len(heap[r.a].props) = Len(keyList.items)
               /\ \A i, j \in 1..Len(keyList.items) :
                    i # j => heap[f.a].props[i].value # heap[f.a].props[j].value
               /\ \A i \in 1..Len(keyList.items) :
                    Own(heap, r, Own(heap, f, keyList.items[i].s).s) = keyList.items[i]
  /\ (rebuilt # NotCalled /\ opts.method = UUID_SHORT /\ ~rebuilt.ok) =>
       rebuilt.error.msg # "Token collision detected"

\* two keys built under two different clock readings
C29_Witness ==
  /\ built # NotCalled /\ built.ok
  /\ opts.method = UUID_SHORT
  /\ Len(keyList.items) = 2
  /\ clock[1] # clock[2]
  /\ heap[built.v.forward.a].props[1].value = Str(<<49, 48, 49, 48, 48, 48>>)
  /\ heap[built.v.forward.a].props[2].value = Str(<<49, 48, 48, 48, 48, 49>>)

\* the own entries of the input object that the top level keeps: those with a
\* safe key, in the order Object.entries gives them, each value as it is
KeptEntries(h0) == SelectSeq(ObjectEntries(h0, input), LAMBDA e : isSafeKey(Str(e.key)))

\* the own keys of the input object that are unsafe, by position in Object.keys
UnsafeOwn(h0) ==
  {i \in 1..Len(ObjectKeys(h0, input)) : ~isSafeKey(Str(ObjectKeys(h0, input)[i]))}

\* C27 (sanitizeObject with deep false): only the top level is copied. For an
\* object, its own unsafe keys are dropped, or the first of them raises with
\* throwOnUnsafeKeys, and each retained value is carried into the result as it
\* is (the same reference, unsafe keys inside it included); for an array every
\* element is carried as it is and an unsafe key of an element never raises;
\* the input is not modified.
C27_ShallowSanitize ==
  (/\ call # NotCalled /\ call.op = "sanitizeObject"
   /\ ~Truthy(deep(call.options))) =>
    LET h0 == Load(<<>>, source).h
    IN /\ SubSeq(heap, 1, Len(h0)) = h0
       /\ source.t \notin {"array", "object"} => outcome = [ok |-> TRUE, v |-> input]
       /\ source.t = "array" =>
            /\ outcome.ok
            /\ outcome.v.t = "ref" /\ outcome.v.a > Len(h0)
            /\ isArray(heap, outcome.v)
            /\ heap[outcome.v.a].items = h0[input.a].items
            /\ Snapshot(heap, outcome.v) = TreeSnapshot(source)
       /\ source.t = "object" =>
            IF Truthy(throwOnUnsafeKeys(call.options)) /\ UnsafeOwn(h0) # {}
            THEN /\ ~outcome.ok
                 /\ outcome.error = [msg |-> "Unsafe key detected",
                                     key |-> ObjectKeys(h0, input)[Min(UnsafeOwn(h0))]]
            ELSE /\ outcome.ok
                 /\ outcome.v.t = "ref" /\ outcome.v.a > Len(h0)
                 /\ ObjectEntries(heap, outcome.v) = KeptEntries(h0)
                 /\ \A i \in 1..Len(KeptEntries(h0)) :
                      Snapshot(heap, Get(heap, outcome.v, KeptEntries(h0)[i].key))
                        = Snapshot(h0, KeptEntries(h0)[i].value)

\* an array whose element object holds an unsafe key, sanitized with
\* throwOnUnsafeKeys: the element is carried over, key and all
C27_Witness ==
  /\ call # NotCalled /\ call.op = "sanitizeObject"
  /\ call.options.deep = Bool(FALSE) /\ call.options.throwOnUnsafeKeys = Bool(TRUE)
  /\ source = ArrayTree(<<ObjectTree(<<[key |-> s_constructor, value |-> Num(1)]>>)>>)
  /\ outcome.ok
  /\ heap[outcome.v.a].items = heap[input.a].items
  /\ s_constructor \in OwnKeySet(heap, heap[outcome.v.a].items[1])

\* C30 (strict sanitization agrees with validation): sanitizeObject(x,
\* {throwOnUnsafeKeys: true}) with deep true raises exactly when
\* validateObjectKeys(x) raises, and both name the same offending key; when
\* neither raises, the result is structurally equal to x and passes
\* validateObjectKeys.
C30_StrictAgreesWithValidate ==
  (/\ call # NotCalled /\ call.op = "sanitizeObject"
   /\ Truthy(throwOnUnsafeKeys(call.options))
   /\ Truthy(deep(call.options))) =>
    LET h0 == Load(<<>>, source).h
        e == validateObjectKeys(h0, input, s_root)
    IN /\ outcome.ok <=> e = NoError
       /\ ~outcome.ok =>
            /\ outcome.error.msg = "Unsafe key detected"
            /\ outcome.error.key = e.key
            /\ e.path = SubSeq(e.path, 1, Len(e.path) - Len(e.key) - 1) \o <<46>> \o outcome.error.key
       /\ outcome.ok =>
            /\ Snapshot(heap, outcome.v) = TreeSnapshot(source)
            /\ validateObjectKeys(heap, outcome.v, s_root) = NoError

\* both raise for 'prototype' below the safe key 'a', not for the sibling key
\* 'constructor' that follows it
C30_Witness ==
  /\ call # NotCalled /\ call.op = "sanitizeObject"
  /\ Truthy(throwOnUnsafeKeys(call.options)) /\ Truthy(deep(call.options))
  /\ source.t = "object" /\ Len(source.props) = 2
  /\ source.props[2].key = s_constructor
  /\ ~outcome.ok
  /\ outcome.error.key = s_prototype
  /\ validateObjectKeys(heap, input, s_root).path = s_root \o <<46, 97, 46>> \o s_prototype

\* the errors of the checks made during the walk, after validation
WalkErrors ==
  {"Unsafe key encountered during tokenization",
   "Unsafe key encountered during detokenization",
   "Unsafe token generated for key",
   "Unsafe original key for token",
   "Cannot assign dangerous key"}

\* the errors validateTokenizationInput raises
ValidationErrors ==
  {"Dangerous key detected in dictionary",
   "Dangerous key detected at",
   "Dictionary value for key must be a string",
   "Dictionary value is not safe and could lead to prototype pollution"}

\* map[key]: an own value of the map, not one inherited from its prototype
OwnLookup(h, m, k) ==
  Get(h, m, k) = IF k \in OwnKeySet(h, m) THEN Own(h, m, k) ELSE Undefined

\* C28 (redundant per-key re-validation): in a call of tokenize or detokenize on
\* plain data no check of the walk can fail once validateTokenizationInput has
\* passed: the errors 'Unsafe key encountered during tokenization /
\* detokenization', 'Unsafe token generated for key', 'Unsafe original key for
\* token' and 'Cannot assign dangerous key' are never raised (a call that raises
\* raises a validation error, a call on a valid input and map returns), and
\* map[key] for a safe key is never a value inherited from the map's prototype.
C28_RevalidationRedundant ==
  /\ \A c \in Calls :
       /\ ~c.ok => c.error.msg \notin WalkErrors /\ c.error.msg \in ValidationErrors
       /\ (MapPasses(heap, mapping) /\ UnsafePaths(heap, input, s_root) = {}) => c.ok
  /\ \A k \in CandidateKeys \cup {Str(x) : x \in ObjectPrototypeMembers} :
       isSafeKey(k) => OwnLookup(heap, mapping, k.s)

\* a walk that looks a key of the input up in a valid map and renames it
C28_Witness ==
  /\ encoded # NotCalled /\ encoded.ok
  /\ MapPasses(heap, mapping)
  /\ IsObject(heap, input) /\ IsObject(heap, encoded.v)
  /\ \E k \in OwnKeySet(heap, input) :
       /\ k \in OwnKeySet(heap, mapping)
       /\ Own(heap, mapping, k) # Str(k)
       /\ Own(heap, mapping, k).s \in OwnKeySet(heap, encoded.v)

----------------------------------------------------------------------------
(* The React hook useJsonTokenizer(input, options).

   `input` is the current input prop and `opts` the options prop; the options
   keep their identity from one render to the next. `hook` holds the five
   useState cells, the useMemo value activeDictionary, the dependencies the
   effects last ran with, and the queue of setter calls. The setter calls of
   one callback or of one flush of the effects are batched: React applies them
   together when it renders the hook again. *)

\* largest number of things done to the hook by its caller: calls of tokenize,
\* detokenize and reset, and renders with another input
MaxHookEvents == 2

\* a dictionary or an error is there: neither null nor undefined (both objects)
Present(v) == v # Null /\ v # Undefined

\* a call of a useState setter
Upd(cell, to) == [set |-> cell, to |-> to]

\* a cell after a batch of setter calls: what the last call of its setter gave
\* it, or its value before the batch
AfterUpdates(cells, updates, cell) ==
  LET calls == {i \in 1..Len(updates) : updates[i].set = cell}
  IN IF calls = {} THEN cells[cell]
     ELSE updates[CHOOSE i \in calls : \A j \in calls : j <= i].to

\* the cells after a batch of setter calls
ApplyUpdates(cells, updates) ==
  [tokenized |-> AfterUpdates(cells, updates, "tokenized"),
   detokenized |-> AfterUpdates(cells, updates, "detokenized"),
   dictionary |-> AfterUpdates(cells, updates, "dictionary"),
   isLoading |-> AfterUpdates(cells, updates, "isLoading"),
   error |-> AfterUpdates(cells, updates, "error")]

\* the five cells of a hook record
Cells(hk) ==
  [tokenized |-> hk.tokenized, detokenized |-> hk.detokenized, dictionary |-> hk.dictionary,
   isLoading |-> hk.isLoading, error |-> hk.error]

\* the hook record with the cells of a batch written into it
WithCells(hk, cells) ==
  [hk EXCEPT !.tokenized = cells.tokenized, !.detokenized = cells.detokenized,
             !.dictionary = cells.dictionary, !.isLoading = cells.isLoading,
             !.error = cells.error]

\* the options after destructuring with their defaults
hookKeys(options) == IF options.keys = Undefined THEN ArrayTree(<<>>) ELSE options.keys
autoTokenize(options) ==
  IF options.autoTokenize = Undefined THEN Bool(TRUE) ELSE options.autoTokenize
hookMethod(options) == IF options.method = Undefined THEN ALPHABETIC ELSE options.method

\* the bug of generating from the keys when both keys and a dictionary are given
activeDictionary_keysFirst(h, options) ==
  IF Len(hookKeys(options).items) = 0
  THEN [h |-> h, v |-> IF Present(options.dictionary) THEN options.dictionary ELSE Null,
        error |-> Null]
  ELSE LET r == generateDictionary(h, hookKeys(options),
                                   [method |-> hookMethod(options),
                                    customGenerator |-> Undefined,
                                    paddingLength |-> Undefined,
                                    prefix |-> Undefined],
                                   [i \in 1..Len(hookKeys(options).items) |-> 46656])
       IN IF r.ok THEN [h |-> r.h, v |-> r.v, error |-> Null]
          ELSE [h |-> r.h, v |-> Null, error |-> r.error]

\* the useMemo callback: the provided dictionary, or one generated from the
\* keys, or null; `error` is what the catch block hands to setError
activeDictionary(h, options) ==
  IF Present(options.dictionary) THEN [h |-> h, v |-> options.dictionary, error |-> Null]
  ELSE IF Len(hookKeys(options).items) = 0 THEN [h |-> h, v |-> Null, error |-> Null]
  ELSE LET r == generateDictionary(h, hookKeys(options),
                                   [method |-> hookMethod(options),
                                    customGenerator |-> Undefined,
                                    paddingLength |-> Undefined,
                                    prefix |-> Undefined],
                                   [i \in 1..Len(hookKeys(options).items) |-> 46656])
       IN IF r.ok THEN [h |-> r.h, v |-> r.v, error |-> Null]
          ELSE [h |-> r.h, v |-> Null, error |-> r.error]

\* the tokenize callback: the setter calls it makes, in order
hookTokenize(h, inp, active) ==
  IF ~Present(active)
  THEN [h |-> h,
        updates |-> <<Upd("error", [msg |-> "No dictionary available. Provide keys or a dictionary."])>>]
  ELSE LET r == tokenize(h, inp, active.forward)
       IN [h |-> r.h,
           updates |-> <<Upd("isLoading", Bool(TRUE)), Upd("error", Null)>>
                         \o (IF r.ok THEN <<Upd("tokenized", r.v), Upd("error", Null)>>
                             ELSE <<Upd("error", r.error), Upd("tokenized", Null)>>)
                         \o <<Upd("isLoading", Bool(FALSE))>>]

\* the detokenize callback: its setter calls and what it returns
hookDetokenize(h, data, active) ==
  IF ~Present(active)
  THEN [h |-> h, returned |-> Null,
        updates |-> <<Upd("error", [msg |-> "No dictionary available for detokenization."])>>]
  ELSE LET r == detokenize(h, data, active.reverse)
       IN IF r.ok
          THEN [h |-> r.h, returned |-> r.v,
                updates |-> <<Upd("detokenized", r.v), Upd("error", Null)>>]
          ELSE [h |-> r.h, returned |-> Null, updates |-> <<Upd("error", r.error)>>]

\* the bug of clearing detokenized instead of setting it back to the input
hookReset_clearsDetokenized(inp) ==
  <<Upd("tokenized", Null), Upd("detokenized", Null), Upd("error", Null),
    Upd("isLoading", Bool(FALSE))>>

\* the reset callback
hookReset(inp) ==
  <<Upd("tokenized", Null), Upd("detokenized", inp), Upd("error", Null),
    Upd("isLoading", Bool(FALSE))>>

\* the dependencies of the auto-tokenize effect; the tokenize callback changes
\* identity exactly when input or activeDictionary does
EffectDeps(inp, active, options) ==
  [mounted |-> TRUE, input |-> inp, activeDictionary |-> active,
   autoTokenize |-> autoTokenize(options)]

\* useEffect(..., [activeDictionary]) runs: on mount, and when the memo changed
dictionaryEffectRuns(seen, deps) ==
  IF ~seen.mounted THEN TRUE ELSE seen.activeDictionary # deps.activeDictionary

\* useEffect(..., [input, activeDictionary, autoTokenize, tokenize]) runs
autoEffectRuns(seen, deps) == seen # deps

\* the values rendered with: objects, an array, falsy and truthy scalars, and an
\* object with an unsafe key
HookInputs ==
  {ObjectTree(<<[key |-> <<97>>, value |-> Num(1)]>>),
   ArrayTree(<<ObjectTree(<<[key |-> <<97>>, value |-> Num(1)]>>)>>),
   ObjectTree(<<[key |-> s_constructor, value |-> Num(1)]>>),
   Num(0), Num(5), Null}

\* the forward and reverse maps of the dictionary a caller provides: a <-> x
ProvidedForward == ObjectTree(<<[key |-> <<97>>, value |-> Str(<<120>>)]>>)
ProvidedReverse == ObjectTree(<<[key |-> <<120>>, value |-> Str(<<97>>)]>>)

HookKeyLists == {Undefined, ArrayTree(<<>>), ArrayTree(<<Str(<<97>>)>>), ArrayTree(<<Str(s_proto)>>)}

\* the state after the first render: the cells hold their initial values, the
\* memo is computed (its catch block has set the error), the effects are due
InitHook ==
  \E ks \in HookKeyLists, provided \in BOOLEAN, auto \in {Undefined, Bool(TRUE), Bool(FALSE)},
     tree \in HookInputs :
    LET f == Load(<<>>, ProvidedForward)
        r == Load(f.h, ProvidedReverse)
        h0 == IF provided THEN r.h ELSE <<>>
        options == [keys |-> ks,
                    dictionary |-> IF provided
                                   THEN [forward |-> f.v, reverse |-> r.v, method |-> ALPHABETIC]
                                   ELSE Undefined,
                    autoTokenize |-> auto,
                    method |-> Undefined]
        lv == Load(h0, tree)
        memo == activeDictionary(lv.h, options)
    IN /\ heap = memo.h
       /\ input = lv.v
       /\ opts = options
       /\ hook = [mounted |-> TRUE,
                  tokenized |-> Null, detokenized |-> lv.v, dictionary |-> Null,
                  isLoading |-> Bool(FALSE), error |-> memo.error,
                  activeDictionary |-> memo.v,
                  seen |-> [mounted |-> FALSE],
                  queue |-> <<>>,
                  tokenizeCalls |-> 0,
                  events |-> 0]
       /\ pc = "effects"
       /\ keyList = Undefined
       /\ clock = <<>>
       /\ built = NotCalled
       /\ mapping = Undefined
       /\ encoded = NotCalled
       /\ decoded = NotCalled
       /\ rebuilt = NotCalled
       /\ source = Undefined
       /\ container = Undefined
       /\ seqIndex = 0
       /\ call = NotCalled
       /\ outcome = NotCalled

\* after a commit React runs the effects whose dependencies changed, in order:
\* setDictionary(activeDictionary), then the auto-tokenize effect; their setter
\* calls are queued, and a queued call makes the hook render again
RunEffects ==
  /\ pc = "effects"
  /\ LET deps == EffectDeps(input, hook.activeDictionary, opts)
         first == IF dictionaryEffectRuns(hook.seen, deps)
                  THEN <<Upd("dictionary", hook.activeDictionary)>>
                  ELSE <<>>
         t == IF /\ autoEffectRuns(hook.seen, deps)
                 /\ Truthy(autoTokenize(opts)) /\ Present(hook.activeDictionary) /\ Truthy(input)
              THEN hookTokenize(heap, input, hook.activeDictionary)
              ELSE [h |-> heap, updates |-> <<>>]
     IN /\ heap' = t.h
        /\ hook' = [hook EXCEPT !.seen = deps, !.queue = first \o t.updates]
        /\ pc' = IF first \o t.updates = <<>> THEN "idle" ELSE "render"
  /\ UNCHANGED <<keyList, opts, clock, built, input, mapping, encoded, decoded, rebuilt,
                 utilVars>>

\* React renders the hook again with the queued setter calls applied as one
\* batch, and commits
Render ==
  /\ pc = "render"
  /\ hook' = [WithCells(hook, ApplyUpdates(Cells(hook), hook.queue)) EXCEPT !.queue = <<>>]
  /\ pc' = "effects"
  /\ UNCHANGED <<heap, keyList, opts, clock, built, input, mapping, encoded, decoded, rebuilt,
                 utilVars>>

\* the parent renders the hook with another input; the memo keeps its value
\* (its dependencies are those of the options), the cells keep theirs
Rerender ==
  /\ pc = "idle"
  /\ hook.events < MaxHookEvents
  /\ \E tree \in HookInputs :
       LET lv == Load(heap, tree)
       IN /\ lv.v # input
          /\ heap' = lv.h
          /\ input' = lv.v
  /\ hook' = [hook EXCEPT !.events = @ + 1]
  /\ pc' = "effects"
  /\ UNCHANGED <<keyList, opts, clock, built, mapping, encoded, decoded, rebuilt, utilVars>>

\* the caller calls the returned tokenize(): its setter calls are queued
CallTokenize ==
  /\ pc = "idle"
  /\ hook.events < MaxHookEvents
  /\ LET t == hookTokenize(heap, input, hook.activeDictionary)
     IN /\ heap' = t.h
        /\ hook' = [hook EXCEPT !.queue = t.updates, !.events = @ + 1,
                                !.tokenizeCalls = @ + 1]
        /\ call' = [op |-> "tokenize", n |-> hook.events + 1, before |-> Cells(hook),
                    updates |-> t.updates, returned |-> Undefined]
  /\ pc' = "render"
  /\ UNCHANGED <<keyList, opts, clock, built, input, mapping, encoded, decoded, rebuilt,
                 source, container, seqIndex, outcome>>

\* the caller calls the returned detokenize(data), with the tokenized value or
\* with the input
CallDetokenize ==
  /\ pc = "idle"
  /\ hook.events < MaxHookEvents
  /\ \E data \in {hook.tokenized, input} :
       LET d == hookDetokenize(heap, data, hook.activeDictionary)
       IN /\ heap' = d.h
          /\ hook' = [hook EXCEPT !.queue = d.updates, !.events = @ + 1]
          /\ call' = [op |-> "detokenize", n |-> hook.events + 1, before |-> Cells(hook),
                      updates |-> d.updates, returned |-> d.returned]
  /\ pc' = "render"
  /\ UNCHANGED <<keyList, opts, clock, built, input, mapping, encoded, decoded, rebuilt,
                 source, container, seqIndex, outcome>>

\* the caller calls the returned reset()
CallReset ==
  /\ pc = "idle"
  /\ hook.events < MaxHookEvents
  /\ hook' = [hook EXCEPT !.queue = hookReset(input), !.events = @ + 1]
  /\ call' = [op |-> "reset", n |-> hook.events + 1, before |-> Cells(hook),
              updates |-> hookReset(input), returned |-> Undefined]
  /\ pc' = "render"
  /\ UNCHANGED <<heap, keyList, opts, clock, built, input, mapping, encoded, decoded, rebuilt,
                 source, container, seqIndex, outcome>>

NextHook ==
  RunEffects \/ Render \/ Rerender \/ CallTokenize \/ CallDetokenize \/ CallReset

SpecHook == InitHook /\ [][NextHook]_vars

\* React runs the effects of every commit, and renders again when a setter
\* call is queued
SpecHookFair == SpecHook /\ WF_vars(RunEffects) /\ WF_vars(Render)

----------------------------------------------------------------------------
(* Properties of the hook. *)

\* a render has been committed for the first time or with another input, and
\* its effects are due
InputRendered ==
  /\ pc = "effects"
  /\ IF hook.seen.mounted THEN hook.seen.input # input ELSE TRUE

\* a dictionary is available and the input passes validation against it
InputPasses ==
  IF Present(hook.activeDictionary)
  THEN validateTokenizationInput(heap, input, hook.activeDictionary.forward) = NoError
  ELSE FALSE

\* isLoading false, error null, tokenized equal to tokenize(input, forward)
AutoTokenized ==
  /\ hook.isLoading = Bool(FALSE)
  /\ hook.error = Null
  /\ IF Present(hook.activeDictionary)
     THEN LET r == tokenize(heap, input, hook.activeDictionary.forward)
          IN r.ok /\ Snapshot(heap, hook.tokenized) = Snapshot(r.h, r.v)
     ELSE FALSE

\* C24 (hook auto-tokenize): with autoTokenize true and a dictionary available,
\* after the initial render and after every change of the input to a value that
\* passes validation, the hook eventually reaches a state with isLoading false,
\* error null and tokenized equal to tokenize(input, dictionary.forward); with
\* autoTokenize false tokenized stays null until tokenize() is called.
C24_AutoTokenize ==
  /\ (InputRendered /\ Truthy(autoTokenize(opts)) /\ InputPasses) ~> AutoTokenized
  /\ []((~Truthy(autoTokenize(opts)) /\ hook.tokenizeCalls = 0) => hook.tokenized = Null)

\* the state reset() leaves: tokenized null, detokenized the input, error null,
\* isLoading false
ResetCells(cells, inp) ==
  /\ cells.tokenized = Null
  /\ cells.detokenized = inp
  /\ cells.error = Null
  /\ cells.isLoading = Bool(FALSE)

\* the step is a call by the caller of the hook, and `op` is what it calls
CallStep(op) == call' # call /\ call'.op = op

\* C25 (hook reset): from any reachable state reset() leads to tokenized null,
\* detokenized equal to the current input, error null and isLoading false, and
\* leaves the dictionary unchanged; the state then stays so (the effects that
\* follow do not tokenize again) until the input changes or tokenize or
\* detokenize is called. While reset() is the last thing done to the hook:
\* once React has rendered, through the effects and when idle, the cells are so.
C25_Reset ==
  (hook.mounted /\ call # NotCalled /\ call.op = "reset" /\ hook.events = call.n) =>
    IF pc = "render"
    THEN Cells(hook) = call.before /\ hook.queue = call.updates
    ELSE /\ ResetCells(hook, input)
         /\ hook.dictionary = call.before.dictionary
         /\ hook.queue = <<>>

\* after an automatic tokenization, reset() has been called and the effects of
\* the render that follows have run: tokenized is still null
C25_Witness ==
  /\ hook.mounted /\ call # NotCalled /\ call.op = "reset" /\ hook.events = call.n
  /\ pc = "idle"
  /\ Truthy(autoTokenize(opts)) /\ Present(hook.activeDictionary) /\ Truthy(input)
  /\ call.before.tokenized # Null
  /\ call.before.detokenized # input
  /\ ResetCells(hook, input)

\* neither a dictionary nor a non-empty key list is provided
NoDictionaryProvided ==
  /\ hook.mounted
  /\ ~Present(opts.dictionary)
  /\ Len(hookKeys(opts).items) = 0

NoDictionaryErrors ==
  {"No dictionary available. Provide keys or a dictionary.",
   "No dictionary available for detokenization."}

\* C26 (hook without dictionary): when neither a dictionary nor a non-empty key
\* list is provided the hook's dictionary is null, and tokenize() and
\* detokenize(data) each set error to a 'No dictionary available' message,
\* leave tokenized and detokenized unchanged and never call setIsLoading(true),
\* and detokenize returns null; a provided dictionary is always the one used,
\* also when keys are given.
C26_NoDictionary ==
  /\ [](NoDictionaryProvided =>
          /\ hook.activeDictionary = Null
          /\ hook.dictionary = Null
          /\ hook.isLoading = Bool(FALSE))
  /\ []((hook.mounted /\ Present(opts.dictionary)) =>
          /\ hook.activeDictionary = opts.dictionary
          /\ hook.dictionary \in {Null, opts.dictionary}
          /\ pc = "idle" => hook.dictionary = opts.dictionary)
  /\ [][/\ (NoDictionaryProvided /\ (CallStep("tokenize") \/ CallStep("detokenize"))) =>
            /\ \A i \in 1..Len(call'.updates) : call'.updates[i].set # "isLoading"
            /\ call'.op = "detokenize" => call'.returned = Null
            /\ pc' = "render"
       /\ (/\ NoDictionaryProvided /\ call # NotCalled
           /\ call.op \in {"tokenize", "detokenize"}
           /\ pc = "render") =>
            /\ Present(hook'.error) /\ hook'.error.msg \in NoDictionaryErrors
            /\ hook'.tokenized = hook.tokenized
            /\ hook'.detokenized = hook.detokenized
            /\ hook'.isLoading = Bool(FALSE)]_vars

\* detokenize called on a hook rendered with an empty key list: null is
\* returned and the error is set
C26_Witness ==
  /\ NoDictionaryProvided
  /\ opts.keys = ArrayTree(<<>>)
  /\ call # NotCalled /\ call.op = "detokenize"
  /\ call.returned = Null
  /\ hook.error = [msg |-> "No dictionary available for detokenization."]
  /\ hook.detokenized = input


====
